---- MODULE Spec2Model ----
(***************************************************************************)
(* Model of the rqLui streaming import/export pipelines and of the         *)
(* RqliteService response inspection.                                      *)
(*                                                                         *)
(*   Spec        import pipeline: ImportService (orchestrator, main        *)
(*               thread), import-worker (parser thread), the store's       *)
(*               batched-write endpoint                                    *)
(*   FairSpec    Spec with the fairness the event loops guarantee          *)
(*   ExportSpec  export pipeline: ExportService, the formatting worker,    *)
(*               the store's paginated read endpoint                       *)
(*   RqSpec      RqliteService calls applied to bounded responses          *)
(*                                                                         *)
(* Text is a sequence of one-character strings.  In SQL text the keyword   *)
(* INSERT is the token "I" ("i" in lower case), any other keyword is "D"   *)
(* and the comment marker -- is the token "-".                             *)
(*                                                                         *)
(* One action is one task of an event loop: a handler runs from the event  *)
(* that wakes it to its next await, microtasks included.                   *)
(***************************************************************************)
EXTENDS Integers, Sequences, FiniteSets, TLC

\* ---------------------------------------------------------------- bounds
MaxFileLen == 5
MaxChunk == 3
MaxBatchSize == 2
MaxCancels == 2
MaxFairFileLen == 3
MaxRows == 5
MaxPageSize == 2
MaxConcurrency == 3
MaxResults == 3
MaxParseLen == 7
MaxValueLen == 2
MaxRowLen == 2
MaxTabs == 3
MaxClock == 1
MaxConnections == 3
MaxOps == 2
MaxSplitLen == 4
MaxLineLen == 5
MaxGridRows == 3
MaxLoads == 3

\* ------------------------------------------------------------- variables
VARIABLES
  \* import: inputs of runImport
  type, batchSize, file, chunks, totalBytes,
  \* import-worker.ts state
  wPc, wCancelled, wLineBuffer, wIsFirstLine, wCurrentBatch, wTotalRows,
  wBytesProcessed,
  \* message channels (postMessage queues)
  toWorker, toMain,
  \* ImportService fields and runImport locals
  started, cancelled, worker, headers, rowsParsed, rowsInserted,
  bytesProcessed, batchQueue, isInserting, progress, promise,
  inflight, waitPc, completeTotal,
  \* the remote store and the history of the run
  issued, written, emitted, cancelCalls, userCancelled, writeFailed,
  workerErrored,
  \* export: the table and the inputs of export()
  tableRows, pageSize, concurrency,
  \* ExportService fields and the locals of export / fetchWithConcurrency
  xPc, xCancelled, xWorker, xPromise, totalRows, xProgress, xChunks,
  currentPage, totalFetched, group, results,
  \* the formatting worker and its channels
  xToWorker, xToMain, fwFormatted, fwCancelled,
  \* history of the export
  published, fetchLog, forwarded, returnLog, xCancelCalls, xUserCancelled,
  xFailed,
  \* RqliteService: the call, the response of the store, the outcome
  rqCall, rqResponse, rqOutcome,
  \* QueryTab.vue: the handler that ran, its input, the statement executed
  qtCall, qtInput, qtStatement,
  \* QueryTab.vue: the data grid's refs, and the calls of
  \* queryWithPagination that have not returned yet
  qtMounted, qtPagination, qtRows, qtLoading, qtError, qtLoads,
  \* a row formatted by the export worker and parsed back by the import worker
  csvPc, csvRow, csvLine, csvParsed,
  \* the tab store: tabs and active tab of each connection, Date.now(), the
  \* last operation called
  tabsByConnection, activeTabByConnection, now, tabCall,
  \* the connection store, localStorage, and the operations since the store
  \* was created
  connections, activeConnectionId, storage, connBase, connOps,
  \* AddDatabaseForm and the page showing it; the URLs whose probe returned
  \* true, the connections emitted as saved
  showAddDialog, form, loading, formError, probeUrl, nextId, probedOk, savedLog

workerVars == <<wPc, wCancelled, wLineBuffer, wIsFirstLine, wCurrentBatch,
                wTotalRows, wBytesProcessed>>
inputVars == <<type, batchSize, file, totalBytes>>
orchVars == <<started, cancelled, worker, headers, rowsParsed, rowsInserted,
              bytesProcessed, batchQueue, isInserting, progress, promise,
              inflight, waitPc, completeTotal>>
histVars == <<issued, written, emitted, cancelCalls, userCancelled,
              writeFailed, workerErrored>>
importVars == <<inputVars, chunks, workerVars, toWorker, toMain, orchVars,
                histVars>>

exportInputs == <<tableRows, pageSize, concurrency>>
exportOrch == <<xPc, xCancelled, xWorker, xPromise, totalRows, xProgress,
                xChunks, currentPage, totalFetched, group, results>>
exportWorker == <<xToWorker, xToMain, fwFormatted, fwCancelled>>
exportHist == <<published, fetchLog, forwarded, returnLog, xCancelCalls,
                xUserCancelled, xFailed>>
exportVars == <<exportInputs, exportOrch, exportWorker, exportHist>>
rqVars == <<rqCall, rqResponse, rqOutcome>>
gridVars == <<qtMounted, qtPagination, qtRows, qtLoading, qtError, qtLoads>>
queryTabVars == <<qtCall, qtInput, qtStatement, gridVars>>
roundTripVars == <<csvPc, csvRow, csvLine, csvParsed>>
tabVars == <<tabsByConnection, activeTabByConnection, now, tabCall>>
connVars == <<connections, activeConnectionId, storage, connBase, connOps>>
formVars == <<showAddDialog, form, loading, formError, probeUrl, nextId,
              probedOk, savedLog>>
storeVars == <<tabVars, connVars, formVars>>
uiVars == <<queryTabVars, roundTripVars, storeVars>>
nonImportVars == <<exportVars, rqVars, uiVars>>
nonExportVars == <<importVars, rqVars, uiVars>>
nonRqVars == <<importVars, exportVars, uiVars>>
nonUiVars == <<importVars, exportVars, rqVars>>

vars == <<importVars, exportVars, rqVars, uiVars>>

\* ------------------------------------------------------------------ text
NL == "\n"
Whitespace == {" ", NL}
CsvAlphabet == {"a", NL}
SqlAlphabet == {"I", "-", ";", NL}

None == [none |-> TRUE]

SeqsUpTo(S, n) == UNION {[1..k -> S] : k \in 0..n}

\* String.prototype.indexOf for a one-character needle; 0 when absent
IndexOf(s, c) ==
  IF \E i \in 1..Len(s) : s[i] = c
  THEN CHOOSE i \in 1..Len(s) : s[i] = c /\ \A j \in 1..(i - 1) : s[j] # c
  ELSE 0

\* String.prototype.split for a one-character separator
RECURSIVE Split(_, _)
Split(s, sep) ==
  LET i == IndexOf(s, sep)
  IN IF i = 0 THEN <<s>>
     ELSE <<SubSeq(s, 1, i - 1)>> \o Split(SubSeq(s, i + 1, Len(s)), sep)

\* String.prototype.trim
RECURSIVE TrimStart(_)
TrimStart(s) ==
  IF s # <<>> /\ Head(s) \in Whitespace THEN TrimStart(Tail(s)) ELSE s

RECURSIVE TrimEnd(_)
TrimEnd(s) ==
  IF s # <<>> /\ s[Len(s)] \in Whitespace
  THEN TrimEnd(SubSeq(s, 1, Len(s) - 1)) ELSE s

Trim(s) == TrimEnd(TrimStart(s))

\* Array.prototype.join of texts with a one-character separator
RECURSIVE Join(_, _)
Join(lines, sep) ==
  IF lines = <<>> THEN <<>>
  ELSE IF Len(lines) = 1 THEN Head(lines)
  ELSE Head(lines) \o <<sep>> \o Join(Tail(lines), sep)

\* mutant: a line parser in which every quote inside quotes closes them
RECURSIVE ParseLoop_NoDoubledQuote(_, _, _, _, _)
ParseLoop_NoDoubledQuote(line, i, result, current, inQuotes) ==
  IF i > Len(line) THEN Append(result, Trim(current))
  ELSE LET char == line[i]
       IN IF inQuotes
          THEN IF char = "\""
               THEN ParseLoop_NoDoubledQuote(line, i + 1, result, current,
                                             FALSE)
               ELSE ParseLoop_NoDoubledQuote(line, i + 1, result,
                                             Append(current, char), TRUE)
          ELSE IF char = "\""
               THEN ParseLoop_NoDoubledQuote(line, i + 1, result, current,
                                             TRUE)
               ELSE IF char = ","
                    THEN ParseLoop_NoDoubledQuote(line, i + 1,
                           Append(result, Trim(current)), <<>>, FALSE)
                    ELSE ParseLoop_NoDoubledQuote(line, i + 1, result,
                                                  Append(current, char), FALSE)

\* parseCSVLine: the loop over line[i], i counted from 1
RECURSIVE ParseLoop(_, _, _, _, _)
ParseLoop(line, i, result, current, inQuotes) ==
  IF i > Len(line) THEN Append(result, Trim(current))
  ELSE LET char == line[i]
           hasNext == i + 1 <= Len(line)
       IN IF inQuotes
          THEN IF char = "\"" /\ hasNext /\ line[i + 1] = "\""
               THEN ParseLoop(line, i + 2, result, Append(current, "\""), TRUE)
               ELSE IF char = "\""
                    THEN ParseLoop(line, i + 1, result, current, FALSE)
                    ELSE ParseLoop(line, i + 1, result,
                                   Append(current, char), TRUE)
          ELSE IF char = "\""
               THEN ParseLoop(line, i + 1, result, current, TRUE)
               ELSE IF char = ","
                    THEN ParseLoop(line, i + 1,
                                   Append(result, Trim(current)), <<>>, FALSE)
                    ELSE ParseLoop(line, i + 1, result,
                                   Append(current, char), FALSE)

parseCSVLine(line) == ParseLoop(line, 1, <<>>, <<>>, FALSE)

\* ----------------------------------------------------- import-worker.ts
\* ImportWorkerResponse; unused fields carry empty values
Msg(t, b, h, n, bytes) ==
  [type |-> t, batch |-> b, headers |-> h, totalRows |-> n,
   bytesProcessed |-> bytes]

\* the parse state threaded through the loops of parseCSV and parseSQL
ParseState(first, batch, total, buf, out) ==
  [isFirstLine |-> first, currentBatch |-> batch, totalRows |-> total,
   buffer |-> buf, out |-> out]

\* mutant: the batch is flushed only once it is longer than batchSize
PushRow_FlushWhenLonger(st, row, size, bytes) ==
  LET b == Append(st.currentBatch, row)
      n == st.totalRows + 1
  IN IF Len(b) > size
     THEN [st EXCEPT !.totalRows = n, !.currentBatch = <<>>,
                     !.out = Append(@, Msg("batch", b, <<>>, n, bytes))]
     ELSE [st EXCEPT !.totalRows = n, !.currentBatch = b]

\* mutant: the row is pushed but totalRows is not incremented
PushRow_NotCounted(st, row, size, bytes) ==
  LET b == Append(st.currentBatch, row)
  IN IF Len(b) >= size
     THEN [st EXCEPT !.currentBatch = <<>>,
                     !.out = Append(@, Msg("batch", b, <<>>, st.totalRows,
                                           bytes))]
     ELSE [st EXCEPT !.currentBatch = b]

\* push one row, count it, and flush the batch when it reaches batchSize
PushRow(st, row, size, bytes) ==
  LET b == Append(st.currentBatch, row)
      n == st.totalRows + 1
  IN IF Len(b) >= size
     THEN [st EXCEPT !.totalRows = n, !.currentBatch = <<>>,
                     !.out = Append(@, Msg("batch", b, <<>>, n, bytes))]
     ELSE [st EXCEPT !.totalRows = n, !.currentBatch = b]

\* parseCSV: for (const line of lines)
RECURSIVE CsvLines(_, _, _, _, _)
CsvLines(lines, st, c, size, bytes) ==
  IF lines = <<>> \/ c THEN st
  ELSE LET trimmed == Trim(Head(lines))
           next == IF trimmed = <<>> THEN st
                   ELSE IF st.isFirstLine
                        THEN [st EXCEPT !.isFirstLine = FALSE,
                                !.out = Append(@, Msg("headers", <<>>,
                                            parseCSVLine(trimmed), 0, 0))]
                        ELSE PushRow(st, parseCSVLine(trimmed), size, bytes)
       \* the state after this line is computed once, then the loop goes on
       IN CHOOSE r \in {CsvLines(Tail(lines), v, c, size, bytes) :
                          v \in {next}} : TRUE

\* mutant: a read loop that splits each chunk on its own, without the rest
\* of the previous chunk
CsvChunk_NoCarry(st, chunk, c, size, bytes) ==
  LET lines == Split(chunk, NL)
      st1 == CsvLines(SubSeq(lines, 1, Len(lines) - 1),
                      [st EXCEPT !.buffer = lines[Len(lines)]],
                      c, size, bytes)
  IN [st1 EXCEPT !.out = Append(@, Msg("progress", <<>>, <<>>,
                                       st1.totalRows, bytes))]

\* parseCSV: the body of the read loop for one chunk
CsvChunk(st, chunk, c, size, bytes) ==
  LET lines == Split(st.buffer \o chunk, NL)
      st1 == CsvLines(SubSeq(lines, 1, Len(lines) - 1),
                      [st EXCEPT !.buffer = lines[Len(lines)]],
                      c, size, bytes)
  IN [st1 EXCEPT !.out = Append(@, Msg("progress", <<>>, <<>>,
                                       st1.totalRows, bytes))]

IsComment(statement) == statement # <<>> /\ Head(statement) = "-"
IsInsert(statement) == statement # <<>> /\ Head(statement) \in {"I", "i"}

\* parseSQL: while ((semicolonIndex = statementBuffer.indexOf(';')) !== -1)
RECURSIVE SqlStatements(_, _, _, _)
SqlStatements(st, c, size, bytes) ==
  LET i == IndexOf(st.buffer, ";")
  IN IF i = 0 \/ c THEN st
     ELSE LET statement == Trim(SubSeq(st.buffer, 1, i - 1))
              st1 == [st EXCEPT
                        !.buffer = SubSeq(st.buffer, i + 1, Len(st.buffer))]
              next == IF statement = <<>> \/ IsComment(statement) THEN st1
                      ELSE IF IsInsert(statement)
                           THEN PushRow(st1, <<statement>>, size, bytes)
                           ELSE st1
          \* the state after this statement is computed once
          IN CHOOSE r \in {SqlStatements(v, c, size, bytes) : v \in {next}} :
               TRUE

\* parseSQL: the body of the read loop for one chunk
SqlChunk(st, chunk, c, size, bytes) ==
  LET st1 == SqlStatements([st EXCEPT !.buffer = @ \o chunk], c, size, bytes)
  IN [st1 EXCEPT !.out = Append(@, Msg("progress", <<>>, <<>>,
                                       st1.totalRows, bytes))]

\* after the read loop: remaining buffer, remaining batch, complete
Flush(st, t, c, total) ==
  LET rest == Trim(st.buffer)
      st1 == IF c \/ rest = <<>> THEN st
             ELSE IF t = "parse-csv"
                  THEN [st EXCEPT !.currentBatch = Append(@, parseCSVLine(rest)),
                                  !.totalRows = @ + 1]
                  ELSE IF IsInsert(rest)
                       THEN [st EXCEPT !.currentBatch = Append(@, <<rest>>),
                                       !.totalRows = @ + 1]
                       ELSE st
      st2 == IF ~c /\ st1.currentBatch # <<>>
             THEN [st1 EXCEPT !.out = Append(@, Msg("batch", st1.currentBatch,
                                          <<>>, st1.totalRows, total))]
             ELSE st1
  IN IF c THEN st2
     ELSE [st2 EXCEPT !.out = Append(@, Msg("complete", <<>>, <<>>,
                                            st2.totalRows, 0))]

\* the batches carried by a sequence of worker messages
BatchesOf(msgs) ==
  LET bs == SelectSeq(msgs, LAMBDA m : m.type = "batch")
  IN [k \in 1..Len(bs) |-> bs[k].batch]

\* one turn of the read loop, from the return of reader.read() to the next
\* read or to the end of the parse function; c is the worker's cancelled flag
ReadStep(st, t, chs, c, size, bytes, total) ==
  IF chs = <<>> THEN [st |-> Flush(st, t, c, total), done |-> TRUE]
  ELSE LET st1 == IF t = "parse-csv"
                  THEN CsvChunk(st, Head(chs), c, size, bytes + Len(Head(chs)))
                  ELSE SqlChunk(st, Head(chs), c, size, bytes + Len(Head(chs)))
       IN IF c THEN [st |-> Flush(st1, t, c, total), done |-> TRUE]
          ELSE [st |-> st1, done |-> FALSE]

\* ------------------------------------------------- ImportService helpers
\* a || b on numbers
OrElse(a, b) == IF a # 0 THEN a ELSE b

\* resolve/reject of a promise: only the first settles it
Settle(p, outcome) == IF p = "pending" THEN outcome ELSE p

\* processBatchQueue: the ParameterizedStatement list built for one batch
BuildStatements(t, hdrs, batch) ==
  [k \in 1..Len(batch) |->
     IF t = "parse-csv"
     THEN [columns |-> hdrs, placeholders |-> Len(hdrs), params |-> batch[k],
           sql |-> <<>>]
     ELSE [columns |-> <<>>, placeholders |-> 0, params |-> <<>>,
           sql |-> batch[k][1]]]

\* rqlite.executeBatch(statements) is sent: one write in flight
Submit(batch, caller) ==
  /\ inflight' = [batch |-> batch, caller |-> caller]
  /\ issued' = Append(issued, BuildStatements(type, headers, batch))

\* mutant: processBatchQueue without the isInserting test on entry
ProcessBatchQueueCall_NoInsertingTest(q, caller) ==
  IF q = <<>> \/ cancelled
  THEN /\ batchQueue' = q
       /\ UNCHANGED <<isInserting, inflight, issued>>
  ELSE /\ isInserting' = TRUE
       /\ batchQueue' = Tail(q)
       /\ Submit(Head(q), caller)

\* mutant: processBatchQueue that does not test this.cancelled on entry
ProcessBatchQueueCall_NoCancelCheck(q, caller) ==
  IF isInserting \/ q = <<>>
  THEN /\ batchQueue' = q
       /\ UNCHANGED <<isInserting, inflight, issued>>
  ELSE /\ isInserting' = TRUE
       /\ batchQueue' = Tail(q)
       /\ Submit(Head(q), caller)

\* processBatchQueue() up to its first await, called with queue q
ProcessBatchQueueCall(q, caller) ==
  IF isInserting \/ q = <<>> \/ cancelled
  THEN /\ batchQueue' = q
       /\ UNCHANGED <<isInserting, inflight, issued>>
  ELSE /\ isInserting' = TRUE
       /\ batchQueue' = Tail(q)
       /\ Submit(Head(q), caller)

\* ImportService.cleanup: terminate() discards the worker and its messages
Cleanup ==
  /\ worker' = "null"
  /\ wPc' = "terminated"
  /\ toMain' = <<>>
  /\ toWorker' = <<>>

\* mutant: waitForInserts that ends without resolve(progress)
WaitForInsertsFrom_NoResolve(q, ins, n, prog, tm) ==
  IF q # <<>> \/ ins
  THEN /\ waitPc' = "sleeping"
       /\ progress' = prog
       /\ toMain' = tm
       /\ UNCHANGED <<worker, wPc, toWorker, promise>>
  ELSE /\ waitPc' = "done"
       /\ Cleanup
       /\ progress' = IF cancelled
                      THEN [prog EXCEPT !.phase = "cancelled"]
                      ELSE [prog EXCEPT !.phase = "complete",
                               !.rowsParsed = OrElse(completeTotal, rowsParsed),
                               !.rowsInserted = n]
       /\ promise' = promise

\* waitForInserts from its loop condition on; q, ins, n, prog are the
\* queue, isInserting, rowsInserted and progress at that point, tm the
\* worker messages still to be handled
WaitForInsertsFrom(q, ins, n, prog, tm) ==
  IF q # <<>> \/ ins
  THEN /\ waitPc' = "sleeping"
       /\ progress' = prog
       /\ toMain' = tm
       /\ UNCHANGED <<worker, wPc, toWorker, promise>>
  ELSE /\ waitPc' = "done"
       /\ Cleanup
       /\ progress' = IF cancelled
                      THEN [prog EXCEPT !.phase = "cancelled"]
                      ELSE [prog EXCEPT !.phase = "complete",
                               !.rowsParsed = OrElse(completeTotal, rowsParsed),
                               !.rowsInserted = n]
       /\ promise' = Settle(promise, "resolved")


\* ------------------------------------------------------- parts not in use
\* the export service and the RqliteService call of a run that imports
ExportIdle ==
  /\ tableRows = 0 /\ pageSize = 1 /\ concurrency = 1
  /\ xPc = "off" /\ xCancelled = FALSE /\ xWorker = "null"
  /\ xPromise = "pending" /\ totalRows = 0
  /\ xProgress = [phase |-> "none", rowsFetched |-> 0, rowsFormatted |-> 0]
  /\ xChunks = <<>> /\ currentPage = 1 /\ totalFetched = 0
  /\ group = <<>> /\ results = <<>>
  /\ xToWorker = <<>> /\ xToMain = <<>> /\ fwFormatted = 0
  /\ fwCancelled = FALSE
  /\ published = 0 /\ fetchLog = <<>> /\ forwarded = <<>> /\ returnLog = <<>>
  /\ xCancelCalls = 0 /\ xUserCancelled = FALSE /\ xFailed = FALSE

NoOutcome == [kind |-> "none", results |-> <<>>, message |-> ""]

RqIdle == rqCall = "none" /\ rqResponse = <<>> /\ rqOutcome = NoOutcome

\* a ParameterizedStatement: the SQL template as tokens, then the parameters
NoStatement == [template |-> <<>>, params |-> <<>>]

ColumnNames == <<"id", "name">>

NoInput ==
  [column |-> "", primaryKey |-> "", newValue |-> "", primaryKeyValue |-> "",
   data |-> [c \in {ColumnNames[i] : i \in 1..Len(ColumnNames)} |-> ""]]

\* the refs of the data grid as setup() creates them, with the page size p
GridSetup(p) ==
  /\ qtMounted = FALSE
  /\ qtPagination = [page |-> 1, rowsPerPage |-> p, rowsNumber |-> 0]
  /\ qtRows = <<>> /\ qtLoading = FALSE /\ qtError = FALSE /\ qtLoads = <<>>

\* the table view of a run that does not use it
QueryTabIdle ==
  /\ qtCall = "off" /\ qtInput = NoInput /\ qtStatement = NoStatement
  /\ GridSetup(1)

\* no row is formatted or parsed
RoundTripIdle ==
  csvPc = "off" /\ csvRow = <<>> /\ csvLine = <<>> /\ csvParsed = <<>>

ConnectionIds == {"c1", "c2"}

NoTab == <<>>

\* no operation called yet: the operation, its arguments, and the active tab
\* of its connection when it was called
NoCall == [op |-> "none", connectionId |-> "", arg |-> <<>>, active |-> <<>>]

\* the tab store of a run that does not use it
TabsIdle ==
  /\ tabsByConnection = [c \in ConnectionIds |-> <<>>]
  /\ activeTabByConnection = [c \in ConnectionIds |-> NoTab]
  /\ now = 0 /\ tabCall = NoCall

\* localStorage without the item STORAGE_KEY
NoItem == [state |-> "none", data |-> <<>>]

NoConnection == 0

\* the connection store of a run that does not use it
ConnectionsIdle ==
  /\ connections = <<>> /\ activeConnectionId = NoConnection
  /\ storage = NoItem /\ connBase = <<>> /\ connOps = <<>>

EmptyForm == [name |-> "", url |-> ""]

\* the add-connection dialog of a run that does not use it
FormIdle ==
  /\ showAddDialog = FALSE /\ form = EmptyForm /\ loading = FALSE
  /\ formError = "" /\ probeUrl = "" /\ nextId = 1
  /\ probedOk = {} /\ savedLog = <<>>

StoresIdle == TabsIdle /\ ConnectionsIdle /\ FormIdle

UiIdle == QueryTabIdle /\ RoundTripIdle /\ StoresIdle

\* ---------------------------------------------------------- import: Init
\* file.stream() delivers the file in chunks of a fixed size
RECURSIVE ChunksOf(_, _)
ChunksOf(text, size) ==
  IF Len(text) <= size THEN (IF text = <<>> THEN <<>> ELSE <<text>>)
  ELSE <<SubSeq(text, 1, size)>>
         \o ChunksOf(SubSeq(text, size + 1, Len(text)), size)

Files(t) ==
  SeqsUpTo(IF t = "parse-csv" THEN CsvAlphabet ELSE SqlAlphabet, MaxFileLen)

\* the files of the liveness check: no comment markers, no blank lines
FairFiles(t) ==
  SeqsUpTo(IF t = "parse-csv" THEN CsvAlphabet ELSE {"I", ";"}, MaxFairFileLen)

\* the worker before its first message and the service after
\* new ImportService(), with the locals of runImport as they are declared
ImportFresh ==
  /\ wPc = "idle" /\ wCancelled = FALSE /\ wLineBuffer = <<>>
  /\ wIsFirstLine = TRUE /\ wCurrentBatch = <<>> /\ wTotalRows = 0
  /\ wBytesProcessed = 0
  /\ toWorker = <<>> /\ toMain = <<>>
  /\ started = FALSE /\ cancelled = FALSE /\ worker = "null"
  /\ headers = <<>> /\ rowsParsed = 0 /\ rowsInserted = 0
  /\ bytesProcessed = 0 /\ batchQueue = <<>> /\ isInserting = FALSE
  /\ progress = [phase |-> "parsing", rowsParsed |-> 0, rowsInserted |-> 0,
                 bytesProcessed |-> 0, error |-> FALSE]
  /\ promise = "pending" /\ inflight = None /\ waitPc = "none"
  /\ completeTotal = 0
  /\ issued = <<>> /\ written = <<>> /\ emitted = <<>> /\ cancelCalls = 0
  /\ userCancelled = FALSE /\ writeFailed = FALSE /\ workerErrored = FALSE

\* the state after new ImportService(), for an import of a file of F[type]
InitOn(F) ==
  /\ type \in {"parse-csv", "parse-sql"}
  /\ batchSize \in 1..MaxBatchSize
  /\ file \in F[type]
  /\ \E size \in 1..MaxChunk : chunks = ChunksOf(file, size)
  /\ totalBytes = Len(file)
  /\ ImportFresh

Init ==
  /\ InitOn([t \in {"parse-csv", "parse-sql"} |-> Files(t)])
  /\ ExportIdle /\ RqIdle /\ UiIdle

\* ------------------------------------------------------- import: worker
\* self.onmessage, type parse-csv / parse-sql: runs to the first read
WorkerParse ==
  /\ wPc = "idle" /\ toWorker # <<>> /\ Head(toWorker) = "parse"
  /\ toWorker' = Tail(toWorker)
  /\ wCancelled' = FALSE
  /\ wPc' = "reading"
  /\ UNCHANGED <<nonImportVars, inputVars, chunks, wLineBuffer, wIsFirstLine, wCurrentBatch,
                 wTotalRows, wBytesProcessed, toMain, orchVars, histVars>>

\* self.onmessage, type cancel
WorkerCancel ==
  /\ wPc \in {"reading", "done"} /\ toWorker # <<>>
  /\ Head(toWorker) = "cancel"
  /\ toWorker' = Tail(toWorker)
  /\ wCancelled' = TRUE
  /\ UNCHANGED <<nonImportVars, inputVars, chunks, wPc, wLineBuffer, wIsFirstLine,
                 wCurrentBatch, wTotalRows, wBytesProcessed, toMain, orchVars,
                 histVars>>

\* reader.read() returns: one turn of the loop of parseCSV / parseSQL
WorkerRead ==
  /\ wPc = "reading"
  /\ \E r \in {ReadStep(ParseState(wIsFirstLine, wCurrentBatch, wTotalRows,
                                    wLineBuffer, <<>>),
                         type, chunks, wCancelled, batchSize,
                         wBytesProcessed, totalBytes)} :
        /\ wIsFirstLine' = r.st.isFirstLine
        /\ wCurrentBatch' = r.st.currentBatch
        /\ wTotalRows' = r.st.totalRows
        /\ wLineBuffer' = r.st.buffer
        /\ toMain' = toMain \o r.st.out
        /\ emitted' = emitted \o BatchesOf(r.st.out)
        /\ wPc' = IF r.done THEN "done" ELSE "reading"
  /\ wBytesProcessed' = IF chunks = <<>> THEN wBytesProcessed
                        ELSE wBytesProcessed + Len(Head(chunks))
  /\ chunks' = IF chunks = <<>> THEN chunks ELSE Tail(chunks)
  /\ UNCHANGED <<nonImportVars, inputVars, wCancelled, toWorker, orchVars, issued, written,
                 cancelCalls, userCancelled, writeFailed, workerErrored>>

\* reader.read() rejects: the catch of self.onmessage posts an error
WorkerReadError ==
  /\ wPc = "reading"
  /\ wPc' = "done"
  /\ toMain' = Append(toMain, Msg("error", <<>>, <<>>, 0, 0))
  /\ UNCHANGED <<nonImportVars, inputVars, chunks, wCancelled, wLineBuffer, wIsFirstLine,
                 wCurrentBatch, wTotalRows, wBytesProcessed, toWorker,
                 orchVars, histVars>>

\* ------------------------------------------------- import: orchestrator
\* runImport up to the return of the promise
RunImport ==
  /\ ~started /\ xPc = "off"
  /\ started' = TRUE
  /\ cancelled' = FALSE
  /\ worker' = "alive"
  /\ toWorker' = Append(toWorker, "parse")
  /\ UNCHANGED <<nonImportVars, inputVars, chunks, workerVars, toMain, headers, rowsParsed,
                 rowsInserted, bytesProcessed, batchQueue, isInserting,
                 progress, promise, inflight, waitPc, completeTotal, histVars>>

\* mutant: cancel() that posts to this.worker without testing it
Cancel_NoWorkerTest ==
  /\ started /\ cancelCalls < MaxCancels
  /\ cancelled' = TRUE
  /\ toWorker' = Append(toWorker, "cancel")
  /\ cancelCalls' = cancelCalls + 1
  /\ userCancelled' = (userCancelled \/ promise = "pending")
  /\ UNCHANGED <<nonImportVars, inputVars, chunks, workerVars, toMain, started, worker,
                 headers, rowsParsed, rowsInserted, bytesProcessed, batchQueue,
                 isInserting, progress, promise, inflight, waitPc,
                 completeTotal, issued, written, emitted, writeFailed,
                 workerErrored>>

\* ImportService.cancel, called by the progress dialog and when the view is
\* left; userCancelled records a cancel of an import that had not settled
Cancel ==
  /\ started /\ cancelCalls < MaxCancels
  /\ cancelled' = TRUE
  /\ toWorker' = IF worker = "alive" THEN Append(toWorker, "cancel")
                 ELSE toWorker
  /\ cancelCalls' = cancelCalls + 1
  /\ userCancelled' = (userCancelled \/ promise = "pending")
  /\ UNCHANGED <<nonImportVars, inputVars, chunks, workerVars, toMain, started, worker,
                 headers, rowsParsed, rowsInserted, bytesProcessed, batchQueue,
                 isInserting, progress, promise, inflight, waitPc,
                 completeTotal, issued, written, emitted, writeFailed,
                 workerErrored>>

Receives(t) == worker = "alive" /\ toMain # <<>> /\ Head(toMain).type = t

\* worker.onmessage, case 'headers'
OnHeaders ==
  /\ Receives("headers")
  /\ headers' = Head(toMain).headers
  /\ toMain' = Tail(toMain)
  /\ UNCHANGED <<nonImportVars, inputVars, chunks, workerVars, toWorker, started, cancelled,
                 worker, rowsParsed, rowsInserted, bytesProcessed, batchQueue,
                 isInserting, progress, promise, inflight, waitPc,
                 completeTotal, histVars>>

\* worker.onmessage, case 'batch'
OnBatch ==
  /\ Receives("batch")
  /\ LET msg == Head(toMain)
     IN /\ rowsParsed' = OrElse(msg.totalRows, rowsParsed)
        /\ bytesProcessed' = OrElse(msg.bytesProcessed, bytesProcessed)
        /\ progress' = [progress EXCEPT !.phase = "parsing",
                                        !.rowsParsed = rowsParsed',
                                        !.bytesProcessed = bytesProcessed']
        /\ ProcessBatchQueueCall(Append(batchQueue, msg.batch), "handler")
  /\ toMain' = Tail(toMain)
  /\ UNCHANGED <<nonImportVars, inputVars, chunks, workerVars, toWorker, started, cancelled,
                 worker, headers, rowsInserted, promise, waitPc, completeTotal,
                 written, emitted, cancelCalls, userCancelled, writeFailed,
                 workerErrored>>

\* worker.onmessage, case 'progress'
OnProgress ==
  /\ Receives("progress")
  /\ LET msg == Head(toMain)
     IN /\ bytesProcessed' = OrElse(msg.bytesProcessed, bytesProcessed)
        /\ rowsParsed' = OrElse(msg.totalRows, rowsParsed)
        /\ progress' = [progress EXCEPT !.rowsParsed = rowsParsed',
                                        !.bytesProcessed = bytesProcessed']
  /\ toMain' = Tail(toMain)
  /\ UNCHANGED <<nonImportVars, inputVars, chunks, workerVars, toWorker, started, cancelled,
                 worker, headers, rowsInserted, batchQueue, isInserting,
                 promise, inflight, waitPc, completeTotal, histVars>>

\* worker.onmessage, case 'complete': waitForInserts up to its first await
OnComplete ==
  /\ Receives("complete")
  /\ completeTotal' = Head(toMain).totalRows
  /\ WaitForInsertsFrom(batchQueue, isInserting, rowsInserted, progress,
                        Tail(toMain))
  /\ UNCHANGED <<nonImportVars, inputVars, chunks, wCancelled, wLineBuffer, wIsFirstLine,
                 wCurrentBatch, wTotalRows, wBytesProcessed, started,
                 cancelled, headers, rowsParsed, rowsInserted, bytesProcessed,
                 batchQueue, isInserting, inflight, histVars>>

\* worker.onmessage, case 'error' (worker.onerror runs the same statements)
OnError ==
  /\ Receives("error")
  /\ Cleanup
  /\ progress' = [progress EXCEPT !.phase = "error", !.error = TRUE]
  /\ promise' = Settle(promise, "rejected-worker")
  /\ workerErrored' = TRUE
  /\ UNCHANGED <<nonImportVars, inputVars, chunks, wCancelled, wLineBuffer, wIsFirstLine,
                 wCurrentBatch, wTotalRows, wBytesProcessed, started,
                 cancelled, headers, rowsParsed, rowsInserted, bytesProcessed,
                 batchQueue, isInserting, inflight, waitPc, completeTotal,
                 issued, written, emitted, cancelCalls, userCancelled,
                 writeFailed>>

\* waitForInserts: the 100 ms timer fires, processBatchQueue is called
TimerFire ==
  /\ waitPc = "sleeping"
  /\ ProcessBatchQueueCall(batchQueue, "wait")
  /\ IF isInserting' /\ ~isInserting
     THEN /\ waitPc' = "awaiting"
          /\ UNCHANGED <<progress, toMain, worker, wPc, toWorker, promise>>
     ELSE WaitForInsertsFrom(batchQueue, isInserting, rowsInserted, progress,
                             toMain)
  /\ UNCHANGED <<nonImportVars, inputVars, chunks, wCancelled, wLineBuffer, wIsFirstLine,
                 wCurrentBatch, wTotalRows, wBytesProcessed, started,
                 cancelled, headers, rowsParsed, rowsInserted, bytesProcessed,
                 completeTotal, written, emitted, cancelCalls, userCancelled,
                 writeFailed, workerErrored>>

\* mutant: a dispatch loop that reads batchQueue[0] without shifting it
WriteOk_NoShift ==
  /\ inflight # None
  /\ written' = Append(written, issued[Len(issued)])
  /\ rowsInserted' = rowsInserted + Len(inflight.batch)
  /\ progress' = [progress EXCEPT !.phase = "inserting",
                                  !.rowsInserted = rowsInserted']
  /\ IF batchQueue # <<>> /\ ~cancelled
     THEN /\ Submit(Head(batchQueue), inflight.caller)
          /\ UNCHANGED <<batchQueue, isInserting>>
     ELSE /\ isInserting' = FALSE
          /\ inflight' = None
          /\ UNCHANGED <<batchQueue, issued>>
  /\ UNCHANGED <<nonImportVars, inputVars, chunks, workerVars, toMain,
                 toWorker, started, cancelled, worker, headers, rowsParsed,
                 bytesProcessed, promise, waitPc, completeTotal, emitted,
                 cancelCalls, userCancelled, writeFailed, workerErrored>>

\* executeBatch returns without error: the rest of the dispatch loop
WriteOk ==
  /\ inflight # None
  /\ written' = Append(written, issued[Len(issued)])
  /\ rowsInserted' = rowsInserted + Len(inflight.batch)
  /\ LET prog == [progress EXCEPT !.phase = "inserting",
                                  !.rowsInserted = rowsInserted']
     IN IF batchQueue # <<>> /\ ~cancelled
        THEN /\ batchQueue' = Tail(batchQueue)
             /\ Submit(Head(batchQueue), inflight.caller)
             /\ progress' = prog
             /\ UNCHANGED <<isInserting, waitPc, toMain, worker, wPc,
                            toWorker, promise>>
        ELSE /\ isInserting' = FALSE
             /\ inflight' = None
             /\ UNCHANGED <<batchQueue, issued>>
             /\ IF inflight.caller = "wait"
                THEN WaitForInsertsFrom(batchQueue, FALSE, rowsInserted',
                                        prog, toMain)
                ELSE /\ progress' = prog
                     /\ UNCHANGED <<waitPc, toMain, worker, wPc, toWorker,
                                    promise>>
  /\ UNCHANGED <<nonImportVars, inputVars, chunks, wCancelled, wLineBuffer, wIsFirstLine,
                 wCurrentBatch, wTotalRows, wBytesProcessed, started,
                 cancelled, headers, rowsParsed, bytesProcessed,
                 completeTotal, emitted, cancelCalls, userCancelled,
                 writeFailed, workerErrored>>

\* mutant: a dispatch loop that clears isInserting in a finally block, with
\* a catch that rejects without calling this.cancel()
WriteFail_NoAbort ==
  /\ inflight # None
  /\ inflight' = None
  /\ isInserting' = FALSE
  /\ writeFailed' = TRUE
  /\ promise' = Settle(promise, "rejected-write")
  /\ progress' = [progress EXCEPT !.phase = "error", !.error = TRUE]
  /\ UNCHANGED <<nonImportVars, inputVars, chunks, workerVars, toMain,
                 toWorker, started, cancelled, worker, headers, rowsParsed,
                 rowsInserted, bytesProcessed, batchQueue, waitPc,
                 completeTotal, issued, written, emitted, cancelCalls,
                 userCancelled, workerErrored>>

\* executeBatch throws (transport failure or embedded error): the dispatch
\* loop is left by the exception, isInserting stays set
WriteFail ==
  /\ inflight # None
  /\ inflight' = None
  /\ writeFailed' = TRUE
  /\ promise' = Settle(promise, "rejected-write")
  /\ IF inflight.caller = "handler"
     THEN \* processBatchQueue().catch of case 'batch'
          /\ cancelled' = TRUE
          /\ toWorker' = IF worker = "alive" THEN Append(toWorker, "cancel")
                         ELSE toWorker
          /\ progress' = [progress EXCEPT !.phase = "error", !.error = TRUE]
          /\ UNCHANGED waitPc
     ELSE \* waitForInserts().catch
          /\ waitPc' = "failed"
          /\ UNCHANGED <<cancelled, toWorker, progress>>
  /\ UNCHANGED <<nonImportVars, inputVars, chunks, workerVars, toMain, started, worker,
                 headers, rowsParsed, rowsInserted, bytesProcessed, batchQueue,
                 isInserting, completeTotal, issued, written, emitted,
                 cancelCalls, userCancelled, workerErrored>>

Next ==
  \/ RunImport \/ Cancel
  \/ WorkerParse \/ WorkerCancel \/ WorkerRead \/ WorkerReadError
  \/ OnHeaders \/ OnBatch \/ OnProgress \/ OnComplete \/ OnError
  \/ TimerFire \/ WriteOk \/ WriteFail

Spec == Init /\ [][Next]_vars

\* Every event loop runs its pending tasks, the worker's reads return and
\* every network call returns; nothing obliges the user to cancel, a write
\* to fail or a read to fail.
MainTask == RunImport \/ OnHeaders \/ OnBatch \/ OnProgress \/ OnComplete
            \/ OnError
WorkerTask == WorkerParse \/ WorkerCancel \/ WorkerRead

Fairness ==
  /\ WF_vars(MainTask)
  /\ WF_vars(WorkerTask)
  /\ WF_vars(TimerFire)
  /\ WF_vars(WriteOk \/ WriteFail)

FairInit ==
  /\ InitOn([t \in {"parse-csv", "parse-sql"} |-> FairFiles(t)])
  /\ ExportIdle /\ RqIdle /\ UiIdle

FairSpec == FairInit /\ [][Next]_vars /\ Fairness

\* ------------------------------------------------ import: the worker alone
\* the worker run on longer files, its messages left undelivered in toMain
ParseFiles(t) ==
  IF t = "parse-csv" THEN SeqsUpTo(CsvAlphabet, MaxParseLen)
  ELSE SeqsUpTo(SqlAlphabet, MaxFileLen)

ParseInit ==
  /\ InitOn([t \in {"parse-csv", "parse-sql"} |-> ParseFiles(t)])
  /\ ExportIdle /\ RqIdle /\ UiIdle

ParseNext ==
  \/ RunImport \/ Cancel
  \/ WorkerParse \/ WorkerCancel \/ WorkerRead \/ WorkerReadError

ParseSpec == ParseInit /\ [][ParseNext]_vars

\* ------------------------------- import: the worker on arbitrary chunkings
\* the ways reader.read() can cut a text into consecutive non-empty chunks
RECURSIVE Partitions(_)
Partitions(text) ==
  IF text = <<>> THEN {<<>>}
  ELSE UNION {{<<SubSeq(text, 1, k)>> \o p :
                 p \in Partitions(SubSeq(text, k + 1, Len(text)))} :
              k \in 1..Len(text)}

SplitFiles(t) ==
  IF t = "parse-csv" THEN SeqsUpTo(CsvAlphabet, MaxFileLen)
  ELSE SeqsUpTo(SqlAlphabet, MaxSplitLen)

SplitInit ==
  /\ type \in {"parse-csv", "parse-sql"}
  /\ batchSize \in 1..MaxBatchSize
  /\ file \in SplitFiles(type)
  /\ chunks \in Partitions(file)
  /\ totalBytes = Len(file)
  /\ ImportFresh
  /\ ExportIdle /\ RqIdle /\ UiIdle

\* a parse that is neither cancelled nor hit by a read error
SplitNext == RunImport \/ WorkerParse \/ WorkerRead

SplitSpec == SplitInit /\ [][SplitNext]_vars

\* ------------------------------------------- import: CSV files with commas
\* importCSV of files whose lines have zero or more separators
CommaFiles == SeqsUpTo({"a", ",", NL}, MaxFileLen)

CsvInit ==
  /\ InitOn([t \in {"parse-csv", "parse-sql"} |-> CommaFiles])
  /\ type = "parse-csv"
  /\ ExportIdle /\ RqIdle /\ UiIdle

CsvSpec == CsvInit /\ [][Next]_vars


\* ========================================================= export pipeline
Min(a, b) == IF a < b THEN a ELSE b
Max(a, b) == IF a > b THEN a ELSE b

\* Math.ceil(totalRows / pageSize)
TotalPages(total, size) == (total + size - 1) \div size

\* mutant: the offset of a 0-based page number
Offset_PageTimesSize(page, size) == page * size

\* queryWithPagination: const offset = (page - 1) * pageSize
Offset(page, size) == (page - 1) * size

\* the store's answer to SELECT * FROM t LIMIT limit OFFSET offset on a table
\* whose rows are 1..n: the rows offset+1 .. offset+limit that exist
SelectLimitOffset(n, limit, offset) ==
  [i \in 1..Max(0, Min(limit, n - offset)) |-> offset + i]

\* mutant: a loop that pushes pages while i <= concurrency
PagesToFetch_OneMore(cp, pages, conc) ==
  [i \in 1..Max(0, Min(conc + 1, pages - cp + 1)) |-> cp + i - 1]

\* fetchWithConcurrency: the pages pushed to pagesToFetch from page cp on
PagesToFetch(cp, pages, conc) ==
  [i \in 1..Max(0, Min(conc, pages - cp + 1)) |-> cp + i - 1]

\* mutant: the loop over the results without if (this.cancelled) break
RECURSIVE ApplyResults_NoCancelCheck(_, _, _, _, _)
ApplyResults_NoCancelCheck(res, k, c, fetched, acc) ==
  IF k > Len(res) THEN [totalFetched |-> fetched, batches |-> acc]
  ELSE IF Len(res[k].rows) > 0
       THEN ApplyResults_NoCancelCheck(res, k + 1, c,
              fetched + Len(res[k].rows),
              Append(acc, [rows |-> res[k].rows,
                           fetched |-> fetched + Len(res[k].rows)]))
       ELSE ApplyResults_NoCancelCheck(res, k + 1, c, fetched, acc)

\* mutant: the results are taken from the end of the array (pop)
RECURSIVE ApplyResults_LastFirst(_, _, _, _, _)
ApplyResults_LastFirst(res, k, c, fetched, acc) ==
  IF k > Len(res) \/ c THEN [totalFetched |-> fetched, batches |-> acc]
  ELSE LET r == res[Len(res) + 1 - k]
       IN IF Len(r.rows) > 0
          THEN ApplyResults_LastFirst(res, k + 1, c, fetched + Len(r.rows),
                                      Append(acc, [rows |-> r.rows,
                                                   fetched |-> fetched
                                                               + Len(r.rows)]))
          ELSE ApplyResults_LastFirst(res, k + 1, c, fetched, acc)

\* fetchWithConcurrency: for (const { result } of results), from result k on;
\* acc collects the calls of onBatch as records of rows and totalFetched
RECURSIVE ApplyResults(_, _, _, _, _)
ApplyResults(res, k, c, fetched, acc) ==
  IF k > Len(res) \/ c THEN [totalFetched |-> fetched, batches |-> acc]
  ELSE IF Len(res[k].rows) > 0
       THEN ApplyResults(res, k + 1, c, fetched + Len(res[k].rows),
                         Append(acc, [rows |-> res[k].rows,
                                      fetched |-> fetched + Len(res[k].rows)]))
       ELSE ApplyResults(res, k + 1, c, fetched, acc)

\* a page request of the current group that has not returned yet
Outstanding == [returned |-> FALSE, rows |-> <<>>]

XMsg(t, rows, n) == [type |-> t, rows |-> rows, totalFormatted |-> n]

\* ExportService.cleanup
XCleanup ==
  /\ xWorker' = "null"
  /\ xToMain' = <<>>
  /\ xToWorker' = <<>>

\* this.worker?.postMessage(m), appended to the messages tw
PostToWorker(alive, tw, m) == IF alive THEN Append(tw, m) ELSE tw

\* fetchWithConcurrency from the test of its while loop on, and the
\* continuation of export once it has returned.  cp is currentPage, total
\* totalRows, alive tells whether this.worker is set, prog, pub and tw are the
\* progress, the number of updates published and the messages posted to the
\* worker so far
FetchFrom(cp, total, alive, prog, pub, tw) ==
  LET pages == TotalPages(total, pageSize)
  IN IF cp <= pages /\ ~xCancelled
     THEN LET g == PagesToFetch(cp, pages, concurrency)
          IN /\ group' = g
             /\ results' = [k \in 1..Len(g) |-> Outstanding]
             /\ currentPage' = cp + Len(g)
             /\ fetchLog' = fetchLog \o
                  [k \in 1..Len(g) |->
                     [page |-> g[k], limit |-> pageSize,
                      offset |-> Offset(g[k], pageSize)]]
             /\ xPc' = "fetching"
             /\ xProgress' = prog
             /\ published' = pub
             /\ xToWorker' = tw
             /\ xWorker' = IF alive THEN "alive" ELSE "null"
             /\ UNCHANGED <<xToMain, xPromise>>
     ELSE /\ group' = <<>>
          /\ results' = <<>>
          /\ currentPage' = cp
          /\ fetchLog' = fetchLog
          /\ IF ~xCancelled
             THEN /\ xToWorker' = PostToWorker(alive, tw,
                                               XMsg("finish", <<>>, 0))
                  /\ xPc' = IF alive THEN "finishing" ELSE "done"
                  /\ xProgress' = prog
                  /\ published' = pub
                  /\ xWorker' = IF alive THEN "alive" ELSE "null"
                  /\ UNCHANGED <<xToMain, xPromise>>
             ELSE /\ XCleanup
                  /\ xPc' = "done"
                  /\ xProgress' = [prog EXCEPT !.phase = "cancelled"]
                  /\ published' = pub + 1
                  /\ xPromise' = Settle(xPromise, "null")

\* the state after new ExportService()
ImportIdle ==
  /\ InitOn([t \in {"parse-csv", "parse-sql"} |-> {<<>>}])
  /\ type = "parse-csv" /\ batchSize = 1 /\ chunks = <<>>

ExportInit ==
  /\ ImportIdle /\ RqIdle /\ UiIdle
  /\ tableRows \in 0..MaxRows
  /\ pageSize \in 1..MaxPageSize
  /\ concurrency \in 1..MaxConcurrency
  /\ xPc = "init" /\ xCancelled = FALSE /\ xWorker = "null"
  /\ xPromise = "pending" /\ totalRows = 0
  /\ xProgress = [phase |-> "none", rowsFetched |-> 0, rowsFormatted |-> 0]
  /\ xChunks = <<>> /\ currentPage = 1 /\ totalFetched = 0
  /\ group = <<>> /\ results = <<>>
  /\ xToWorker = <<>> /\ xToMain = <<>> /\ fwFormatted = 0
  /\ fwCancelled = FALSE
  /\ published = 0 /\ fetchLog = <<>> /\ forwarded = <<>> /\ returnLog = <<>>
  /\ xCancelCalls = 0 /\ xUserCancelled = FALSE /\ xFailed = FALSE

\* export() up to the await of the count and schema lookups
Export ==
  /\ xPc = "init"
  /\ xPc' = "lookup"
  /\ xCancelled' = FALSE
  /\ UNCHANGED <<nonExportVars, exportInputs, xWorker, xPromise, totalRows,
                 xProgress, xChunks, currentPage, totalFetched, group, results,
                 exportWorker, exportHist>>

\* ExportService.cancel, called by the progress dialog
XCancel ==
  /\ xPc \notin {"init", "off"}
  /\ xCancelCalls < MaxCancels
  /\ xCancelled' = TRUE
  /\ xToWorker' = PostToWorker(xWorker = "alive", xToWorker,
                               XMsg("cancel", <<>>, 0))
  /\ xCancelCalls' = xCancelCalls + 1
  /\ xUserCancelled' = (xUserCancelled \/ xPromise = "pending")
  /\ UNCHANGED <<nonExportVars, exportInputs, xPc, xWorker, xPromise,
                 totalRows, xProgress, xChunks, currentPage, totalFetched,
                 group, results, xToMain, fwFormatted, fwCancelled, published,
                 fetchLog, forwarded, returnLog, xFailed>>

\* mutant: export without the test totalRows === 0
LookupOk_NoZeroTest ==
  /\ xPc = "lookup"
  /\ totalRows' = tableRows
  /\ FetchFrom(1, tableRows, TRUE,
               [xProgress EXCEPT !.phase = "fetching"], published,
               <<XMsg("init", <<>>, 0)>>)
  /\ UNCHANGED <<nonExportVars, exportInputs, xCancelled, xChunks,
                 totalFetched, fwFormatted, fwCancelled, forwarded, returnLog,
                 xCancelCalls, xUserCancelled, xFailed>>

\* getTableCount and getTableSchema have returned: export from the test of
\* totalRows to the first await of fetchWithConcurrency
LookupOk ==
  /\ xPc = "lookup"
  /\ totalRows' = tableRows
  /\ IF tableRows = 0
     THEN /\ xPromise' = Settle(xPromise, "null")
          /\ xPc' = "done"
          /\ UNCHANGED <<xWorker, xProgress, currentPage, group, results,
                         xToWorker, xToMain, published, fetchLog>>
     ELSE FetchFrom(1, tableRows, TRUE,
                    [xProgress EXCEPT !.phase = "fetching"], published,
                    <<XMsg("init", <<>>, 0)>>)
  /\ UNCHANGED <<nonExportVars, exportInputs, xCancelled, xChunks,
                 totalFetched, fwFormatted, fwCancelled, forwarded, returnLog,
                 xCancelCalls, xUserCancelled, xFailed>>

\* getTableCount or getTableSchema throws: export() rejects
LookupFail ==
  /\ xPc = "lookup"
  /\ xPc' = "done"
  /\ xPromise' = Settle(xPromise, "rejected")
  /\ xFailed' = TRUE
  /\ UNCHANGED <<nonExportVars, exportInputs, xCancelled, xWorker, totalRows,
                 xProgress, xChunks, currentPage, totalFetched, group, results,
                 exportWorker, published, fetchLog, forwarded, returnLog, xCancelCalls,
                 xUserCancelled>>

\* queryWithPagination of the k-th page of the group returns; when it is the
\* last one Promise.all resolves and the results are applied in page order
PageReturn(k) ==
  /\ xPc = "fetching" /\ k \in 1..Len(group) /\ ~results[k].returned
  /\ returnLog' = Append(returnLog, group[k])
  /\ LET res == [results EXCEPT ![k] =
                   [returned |-> TRUE,
                    rows |-> SelectLimitOffset(tableRows, pageSize,
                                               Offset(group[k], pageSize))]]
     IN IF \E j \in 1..Len(res) : ~res[j].returned
        THEN /\ results' = res
             /\ UNCHANGED <<xPc, xWorker, xPromise, xProgress, currentPage,
                            totalFetched, group, xToWorker, xToMain,
                            published, fetchLog, forwarded>>
        ELSE LET applied == ApplyResults(res, 1, xCancelled, totalFetched,
                                         <<>>)
                 n == Len(applied.batches)
                 alive == xWorker = "alive"
                 msgs == [j \in 1..n |->
                            XMsg("batch", applied.batches[j].rows, 0)]
             IN /\ totalFetched' = applied.totalFetched
                /\ forwarded' = IF alive
                                THEN forwarded \o
                                     [j \in 1..n |-> applied.batches[j].rows]
                                ELSE forwarded
                /\ FetchFrom(currentPage, totalRows, alive,
                             IF n = 0 THEN xProgress
                             ELSE [xProgress EXCEPT !.phase = "fetching",
                                     !.rowsFetched = applied.batches[n].fetched],
                             published + n,
                             IF alive THEN xToWorker \o msgs ELSE xToWorker)
  /\ UNCHANGED <<nonExportVars, exportInputs, xCancelled, totalRows, xChunks,
                 fwFormatted, fwCancelled, xCancelCalls, xUserCancelled,
                 xFailed>>

\* queryWithPagination of a page of the group throws: Promise.all rejects
\* and the catch of export runs
PageFail(k) ==
  /\ xPc = "fetching" /\ k \in 1..Len(group) /\ ~results[k].returned
  /\ XCleanup
  /\ xPc' = "done"
  /\ group' = <<>> /\ results' = <<>>
  /\ xProgress' = [xProgress EXCEPT !.phase = "error"]
  /\ published' = published + 1
  /\ xPromise' = Settle(xPromise, "rejected")
  /\ xFailed' = TRUE
  /\ UNCHANGED <<nonExportVars, exportInputs, xCancelled, totalRows, xChunks,
                 currentPage, totalFetched, fwFormatted, fwCancelled, fetchLog,
                 forwarded, returnLog, xCancelCalls, xUserCancelled>>

XReceives(t) == xWorker = "alive" /\ xToMain # <<>> /\ Head(xToMain).type = t

\* worker.onmessage, case 'chunk'
OnChunk ==
  /\ XReceives("chunk")
  /\ xChunks' = Append(xChunks, Head(xToMain).rows)
  /\ xToMain' = Tail(xToMain)
  /\ UNCHANGED <<nonExportVars, exportInputs, xPc, xCancelled, xWorker,
                 xPromise, totalRows, xProgress, currentPage, totalFetched,
                 group, results, xToWorker, fwFormatted, fwCancelled,
                 exportHist>>

\* worker.onmessage, case 'progress'
OnFormatProgress ==
  /\ XReceives("progress")
  /\ xProgress' = [xProgress EXCEPT !.phase = "formatting",
                     !.rowsFormatted = OrElse(Head(xToMain).totalFormatted, @)]
  /\ published' = published + 1
  /\ xToMain' = Tail(xToMain)
  /\ UNCHANGED <<nonExportVars, exportInputs, xPc, xCancelled, xWorker,
                 xPromise, totalRows, xChunks, currentPage, totalFetched,
                 group, results, xToWorker, fwFormatted, fwCancelled,
                 fetchLog, forwarded, returnLog, xCancelCalls, xUserCancelled, xFailed>>

\* worker.onmessage, case 'complete'
OnFormatComplete ==
  /\ XReceives("complete")
  /\ XCleanup
  /\ xProgress' = [xProgress EXCEPT !.phase = "complete",
                     !.rowsFormatted = OrElse(Head(xToMain).totalFormatted, @)]
  /\ published' = published + 1
  /\ xPromise' = Settle(xPromise, "blob")
  /\ xPc' = "done"
  /\ UNCHANGED <<nonExportVars, exportInputs, xCancelled, totalRows, xChunks,
                 currentPage, totalFetched, group, results, fwFormatted,
                 fwCancelled, fetchLog, forwarded, returnLog, xCancelCalls,
                 xUserCancelled, xFailed>>

\* worker.onmessage, case 'error', and worker.onerror
OnFormatError ==
  /\ XReceives("error")
  /\ XCleanup
  /\ xProgress' = [xProgress EXCEPT !.phase = "error"]
  /\ published' = published + 1
  /\ xPromise' = Settle(xPromise, "rejected")
  /\ xPc' = IF xPc = "finishing" THEN "done" ELSE xPc
  /\ xFailed' = TRUE
  /\ UNCHANGED <<nonExportVars, exportInputs, xCancelled, totalRows, xChunks,
                 currentPage, totalFetched, group, results, fwFormatted,
                 fwCancelled, fetchLog, forwarded, returnLog, xCancelCalls,
                 xUserCancelled>>

\* ------------------------------------------------- the formatting worker
FwReceives(t) ==
  xWorker = "alive" /\ xToWorker # <<>> /\ Head(xToWorker).type = t

\* init-csv / init-sql
FwInit ==
  /\ FwReceives("init")
  /\ xToWorker' = Tail(xToWorker)
  /\ fwFormatted' = 0
  /\ UNCHANGED <<nonExportVars, exportInputs, exportOrch, xToMain,
                 fwCancelled, exportHist>>

\* batch: the rows are serialised and streamed back as one chunk, followed
\* by a progress message
FwBatch ==
  /\ FwReceives("batch")
  /\ xToWorker' = Tail(xToWorker)
  /\ fwFormatted' = fwFormatted + Len(Head(xToWorker).rows)
  /\ xToMain' = xToMain \o <<XMsg("chunk", Head(xToWorker).rows, 0),
                             XMsg("progress", <<>>, fwFormatted')>>
  /\ UNCHANGED <<nonExportVars, exportInputs, exportOrch, fwCancelled,
                 exportHist>>

\* batch: serialising fails, an error message is posted
FwBatchError ==
  /\ FwReceives("batch")
  /\ xToWorker' = Tail(xToWorker)
  /\ xToMain' = Append(xToMain, XMsg("error", <<>>, 0))
  /\ UNCHANGED <<nonExportVars, exportInputs, exportOrch, fwFormatted,
                 fwCancelled, exportHist>>

\* finish
FwFinish ==
  /\ FwReceives("finish")
  /\ xToWorker' = Tail(xToWorker)
  /\ xToMain' = Append(xToMain, XMsg("complete", <<>>, fwFormatted))
  /\ UNCHANGED <<nonExportVars, exportInputs, exportOrch, fwFormatted,
                 fwCancelled, exportHist>>

\* cancel
FwCancel ==
  /\ FwReceives("cancel")
  /\ xToWorker' = Tail(xToWorker)
  /\ fwCancelled' = TRUE
  /\ UNCHANGED <<nonExportVars, exportInputs, exportOrch, xToMain,
                 fwFormatted, exportHist>>

ExportNext ==
  \/ Export \/ XCancel \/ LookupOk \/ LookupFail
  \/ \E k \in 1..MaxConcurrency : PageReturn(k)
  \/ \E k \in 1..MaxConcurrency : PageFail(k)
  \/ OnChunk \/ OnFormatProgress \/ OnFormatComplete \/ OnFormatError
  \/ FwInit \/ FwBatch \/ FwBatchError \/ FwFinish \/ FwCancel

ExportSpec == ExportInit /\ [][ExportNext]_vars


\* ========================================================== RqliteService
\* a statement result of the store: its position in the response and its
\* error field, NoErr when the field is absent
NoErr == "absent"
StoreErrors == {"e1", "e2"}
Calls == {"queryWithTime", "query", "requestWithTime", "request", "execute",
          "executeBatch"}

Responses ==
  UNION {[1..n -> [error : StoreErrors \cup {NoErr}]] : n \in 0..MaxResults}

Returned(rs) == [kind |-> "returned", results |-> rs, message |-> ""]
Thrown(m) == [kind |-> "thrown", results |-> <<>>, message |-> m]

\* checkResponseError: TRUE when it throws
checkResponseError(result) == result.error # NoErr

\* results[0] is inspected and returned; without it an empty result is
\* returned (queryWithTime, requestWithTime, execute)
FirstResult(resp) ==
  IF resp # <<>> /\ checkResponseError(resp[1])
  THEN Thrown(resp[1].error)
  ELSE Returned(IF resp # <<>> THEN <<resp[1]>> ELSE <<[error |-> NoErr]>>)

\* mutant: executeBatch that inspects results[0] only
BatchResults_FirstOnly(resp, k) ==
  IF resp # <<>> /\ checkResponseError(resp[1]) THEN Thrown(resp[1].error)
  ELSE Returned(resp)

\* executeBatch: for (const result of response.data.results)
RECURSIVE BatchResults(_, _)
BatchResults(resp, k) ==
  IF k > Len(resp) THEN Returned(resp)
  ELSE IF checkResponseError(resp[k]) THEN Thrown(resp[k].error)
  ELSE BatchResults(resp, k + 1)

RqInit ==
  /\ ImportIdle /\ ExportIdle /\ UiIdle
  /\ rqCall \in Calls
  /\ rqResponse \in Responses
  /\ rqOutcome = NoOutcome

Calling(c) == rqCall = c /\ rqOutcome = NoOutcome

queryWithTime ==
  /\ Calling("queryWithTime")
  /\ rqOutcome' = FirstResult(rqResponse)
  /\ UNCHANGED <<nonRqVars, rqCall, rqResponse>>

\* query awaits queryWithTime and returns its result
query ==
  /\ Calling("query")
  /\ rqOutcome' = FirstResult(rqResponse)
  /\ UNCHANGED <<nonRqVars, rqCall, rqResponse>>

requestWithTime ==
  /\ Calling("requestWithTime")
  /\ rqOutcome' = FirstResult(rqResponse)
  /\ UNCHANGED <<nonRqVars, rqCall, rqResponse>>

\* request awaits requestWithTime and returns its result
request ==
  /\ Calling("request")
  /\ rqOutcome' = FirstResult(rqResponse)
  /\ UNCHANGED <<nonRqVars, rqCall, rqResponse>>

execute ==
  /\ Calling("execute")
  /\ rqOutcome' = FirstResult(rqResponse)
  /\ UNCHANGED <<nonRqVars, rqCall, rqResponse>>

executeBatch ==
  /\ Calling("executeBatch")
  /\ rqOutcome' = BatchResults(rqResponse, 1)
  /\ UNCHANGED <<nonRqVars, rqCall, rqResponse>>

RqNext ==
  \/ queryWithTime \/ query \/ requestWithTime \/ request \/ execute
  \/ executeBatch

RqSpec == RqInit /\ [][RqNext]_vars

\* ====================================== either pipeline, one invocation
\* a run is one import or one export: each invocation has a service of its own
PipelineInit == Init \/ ExportInit

PipelineNext == Next \/ ExportNext

PipelineSpec == PipelineInit /\ [][PipelineNext]_vars

\* ============================================================ QueryTab.vue
\* values a user can type into a cell or a form field
UserValues == {"", "a", "'", ";", "DROP", "?"}

tableName == "t"

\* "${name}" inside a template literal
Quoted(name) == <<"\"", name, "\"">>

\* mutant: the new value is written into the template between quotes
CellEditStatement_ValueInlined(payload) ==
  [template |-> <<"UPDATE">> \o Quoted(tableName) \o <<"SET">>
                 \o Quoted(payload.column) \o <<"=", "'", payload.newValue,
                 "'", "WHERE">> \o Quoted(payload.primaryKey) \o <<"=", "?">>,
   params |-> <<payload.primaryKeyValue>>]

\* handleCellEdit: the statement passed to rqliteService.execute
CellEditStatement(payload) ==
  [template |-> <<"UPDATE">> \o Quoted(tableName) \o <<"SET">>
                 \o Quoted(payload.column) \o <<"=", "?", "WHERE">>
                 \o Quoted(payload.primaryKey) \o <<"=", "?">>,
   params |-> <<payload.newValue, payload.primaryKeyValue>>]

\* handleInsertRow: cols are the keys of data with a non-empty value
InsertRowStatement(data) ==
  LET cols == SelectSeq(ColumnNames, LAMBDA k : data[k] # "")
      values == [i \in 1..Len(cols) |-> data[cols[i]]]
  IN [template |-> <<"INSERT INTO">> \o Quoted(tableName) \o <<"(">>
                    \o Join([i \in 1..Len(cols) |-> Quoted(cols[i])], ",")
                    \o <<")", "VALUES", "(">>
                    \o Join([i \in 1..Len(cols) |-> <<"?">>], ",")
                    \o <<")">>,
      params |-> values]

\* handleDeleteRow, onOk: the statement passed to rqliteService.execute
DeleteRowStatement(pk, pkValue) ==
  [template |-> <<"DELETE FROM">> \o Quoted(tableName) \o <<"WHERE">>
                 \o Quoted(pk) \o <<"=", "?">>,
   params |-> <<pkValue>>]

\* the table view is shown; primaryKey.value is the table's key or null
QueryTabInit ==
  /\ ImportIdle /\ ExportIdle /\ RqIdle
  /\ qtCall = "idle"
  /\ \E pk \in {"", "id"} : qtInput = [NoInput EXCEPT !.primaryKey = pk]
  /\ qtStatement = NoStatement
  /\ GridSetup(1)
  /\ RoundTripIdle /\ StoresIdle

\* handleCellEdit(payload), the payload as DataGrid emits it
handleCellEdit ==
  /\ qtCall = "idle"
  /\ \E col \in {"id", "name"}, v \in UserValues, kv \in UserValues :
       LET payload == [qtInput EXCEPT !.column = col, !.newValue = v,
                                      !.primaryKeyValue = kv]
       IN /\ qtInput' = payload
          /\ qtStatement' = IF payload.primaryKey = "" THEN NoStatement
                            ELSE CellEditStatement(payload)
  /\ qtCall' = "handleCellEdit"
  /\ UNCHANGED <<nonUiVars, storeVars, roundTripVars, gridVars>>

\* handleInsertRow(data)
handleInsertRow ==
  /\ qtCall = "idle"
  /\ \E data \in [{"id", "name"} -> UserValues] :
       /\ qtInput' = [qtInput EXCEPT !.data = data]
       /\ qtStatement' = IF \A k \in DOMAIN data : data[k] = ""
                         THEN NoStatement
                         ELSE InsertRowStatement(data)
  /\ qtCall' = "handleInsertRow"
  /\ UNCHANGED <<nonUiVars, storeVars, roundTripVars, gridVars>>

\* handleDeleteRow(row) up to the confirmation dialog
handleDeleteRow ==
  /\ qtCall = "idle"
  /\ \E kv \in UserValues :
       qtInput' = [qtInput EXCEPT !.primaryKeyValue = kv]
  /\ qtCall' = IF qtInput.primaryKey = "" THEN "handleDeleteRow"
               ELSE "confirmDelete"
  /\ UNCHANGED <<nonUiVars, storeVars, roundTripVars, gridVars, qtStatement>>

\* the dialog is confirmed: onOk
DeleteConfirmed ==
  /\ qtCall = "confirmDelete"
  /\ qtStatement' = DeleteRowStatement(qtInput.primaryKey,
                                       qtInput.primaryKeyValue)
  /\ qtCall' = "handleDeleteRow"
  /\ UNCHANGED <<nonUiVars, storeVars, roundTripVars, gridVars, qtInput>>

\* the dialog is dismissed
DeleteDismissed ==
  /\ qtCall = "confirmDelete"
  /\ qtCall' = "dismissed"
  /\ UNCHANGED <<nonUiVars, storeVars, roundTripVars, gridVars, qtInput,
                 qtStatement>>

QueryTabNext ==
  \/ handleCellEdit \/ handleInsertRow \/ handleDeleteRow
  \/ DeleteConfirmed \/ DeleteDismissed

QueryTabSpec == QueryTabInit /\ [][QueryTabNext]_vars

\* ===================================================== CSV format and parse
\* the characters of a cell value: no control characters
ValueAlphabet == {"a", ",", "\"", " "}

\* internal quotes doubled
RECURSIVE DoubleQuotes(_)
DoubleQuotes(v) ==
  IF v = <<>> THEN <<>>
  ELSE (IF Head(v) = "\"" THEN <<"\"", "\"">> ELSE <<Head(v)>>)
       \o DoubleQuotes(Tail(v))

\* delimited-text rule: a value containing the separator, a quote or a
\* newline is wrapped in quotes with internal quotes doubled
FormatCsvValue(v) ==
  IF \E i \in 1..Len(v) : v[i] \in {",", "\"", NL}
  THEN <<"\"">> \o DoubleQuotes(v) \o <<"\"">>
  ELSE v

FormatCsvRow(row) == Join([i \in 1..Len(row) |-> FormatCsvValue(row[i])], ",")

RoundTripInit ==
  /\ ImportIdle /\ ExportIdle /\ RqIdle /\ QueryTabIdle /\ StoresIdle
  /\ csvPc = "row"
  /\ csvRow \in UNION {[1..n -> SeqsUpTo(ValueAlphabet, MaxValueLen)] :
                          n \in 1..MaxRowLen}
  /\ csvLine = <<>> /\ csvParsed = <<>>

\* the export worker formats the row as one line
FormatRow ==
  /\ csvPc = "row"
  /\ csvLine' = FormatCsvRow(csvRow)
  /\ csvPc' = "formatted"
  /\ UNCHANGED <<nonUiVars, storeVars, queryTabVars, csvRow, csvParsed>>

\* the import worker parses the line
ParseLine ==
  /\ csvPc \in {"formatted", "line"}
  /\ csvParsed' = parseCSVLine(csvLine)
  /\ csvPc' = "parsed"
  /\ UNCHANGED <<nonUiVars, storeVars, queryTabVars, csvRow, csvLine>>

RoundTripNext == FormatRow \/ ParseLine

RoundTripSpec == RoundTripInit /\ [][RoundTripNext]_vars

\* the line parser on any trimmed line of a file, well-formed or not
LineInit ==
  /\ ImportIdle /\ ExportIdle /\ RqIdle /\ QueryTabIdle /\ StoresIdle
  /\ csvPc = "line"
  /\ csvRow = <<>>
  /\ csvLine \in SeqsUpTo(ValueAlphabet, MaxLineLen)
  /\ csvParsed = <<>>

LineNext == ParseLine

LineSpec == LineInit /\ [][LineNext]_vars

\* ================================================================ tab store
TableNames == {"t1", "t2"}

\* `SELECT * FROM "${tableName}"`
DefaultSql(name) == <<"SELECT * FROM">> \o Quoted(name)

\* the SQL text a user types into the SQL box
UserSql == <<"q">>

\* Array.prototype.findIndex: the first index satisfying the test, 0 if none
FirstIndex(S) == IF S = {} THEN 0 ELSE CHOOSE i \in S : \A j \in S : i <= j

\* splice(i, 1)
RemoveAt(seq, i) == SubSeq(seq, 1, i - 1) \o SubSeq(seq, i + 1, Len(seq))

\* getTabs: the array of the connection, or [] when the map has none
getTabs(connectionId) == tabsByConnection[connectionId]

\* getTabForTable: the index of the first tab of the table that is not a
\* custom query, 0 when find returns undefined
getTabForTable(connectionId, name) ==
  LET tabs == getTabs(connectionId)
  IN FirstIndex({i \in 1..Len(tabs) :
                   tabs[i].tableName = name /\ ~tabs[i].isCustomQuery})

\* the tabs open in the store, over all connections
TabCount ==
  Cardinality({p \in ConnectionIds \X (1..MaxTabs) :
                 p[2] <= Len(tabsByConnection[p[1]])})

\* the browser page of connection c is shown with no tab open
TabInit ==
  /\ ImportIdle /\ ExportIdle /\ RqIdle /\ QueryTabIdle /\ RoundTripIdle
  /\ TabsIdle /\ ConnectionsIdle /\ FormIdle

\* time passes: Date.now() never goes back
Tick ==
  /\ now < MaxClock
  /\ now' = now + 1
  /\ UNCHANGED <<nonUiVars, queryTabVars, roundTripVars, connVars, formVars,
                 tabsByConnection, activeTabByConnection, tabCall>>

\* openTab(connectionId, tableName)
openTab ==
  \E c \in ConnectionIds, name \in TableNames :
    /\ LET existing == getTabForTable(c, name)
           newTab == [id |-> <<c, name, now>>, tableName |-> name,
                      sql |-> DefaultSql(name), isCustomQuery |-> FALSE]
       IN IF existing # 0
          THEN /\ activeTabByConnection' =
                    [activeTabByConnection EXCEPT ![c] = getTabs(c)[existing].id]
               /\ UNCHANGED tabsByConnection
          ELSE /\ TabCount < MaxTabs
               /\ tabsByConnection' =
                    [tabsByConnection EXCEPT ![c] = Append(@, newTab)]
               /\ activeTabByConnection' =
                    [activeTabByConnection EXCEPT ![c] = newTab.id]
    /\ tabCall' = [op |-> "openTab", connectionId |-> c, arg |-> <<name>>,
              active |-> activeTabByConnection[c]]
    /\ UNCHANGED <<nonUiVars, queryTabVars, roundTripVars, connVars, formVars, now>>

\* the tab ids a caller can pass: those of the open tabs
TabIds(c) == {getTabs(c)[i].id : i \in 1..Len(getTabs(c))}

\* mutant: closeTab that makes the tab before the closed one active
closeTab_PreviousTab ==
  \E c \in ConnectionIds :
    \E tabId \in TabIds(c) \cup {<<c, "t1", now>>} :
      /\ LET tabs == getTabs(c)
             tabIndex == FirstIndex({i \in 1..Len(tabs) : tabs[i].id = tabId})
             rest == RemoveAt(tabs, tabIndex)
         IN IF tabIndex = 0
            THEN UNCHANGED <<tabsByConnection, activeTabByConnection>>
            ELSE /\ tabsByConnection' = [tabsByConnection EXCEPT ![c] = rest]
                 /\ activeTabByConnection' =
                      [activeTabByConnection EXCEPT ![c] =
                         IF @ = tabId /\ Len(rest) > 0
                         THEN rest[Max(tabIndex - 1, 1)].id
                         ELSE IF Len(rest) = 0 THEN NoTab ELSE @]
      /\ tabCall' = [op |-> "closeTab", connectionId |-> c, arg |-> tabId,
                active |-> activeTabByConnection[c]]
      /\ UNCHANGED <<nonUiVars, queryTabVars, roundTripVars, connVars, formVars, now>>

\* closeTab(connectionId, tabId)
closeTab ==
  \E c \in ConnectionIds :
    \E tabId \in TabIds(c) \cup {<<c, "t1", now>>} :
      /\ LET tabs == getTabs(c)
             tabIndex == FirstIndex({i \in 1..Len(tabs) : tabs[i].id = tabId})
             rest == RemoveAt(tabs, tabIndex)
         IN IF tabIndex = 0
            THEN UNCHANGED <<tabsByConnection, activeTabByConnection>>
            ELSE /\ tabsByConnection' = [tabsByConnection EXCEPT ![c] = rest]
                 /\ activeTabByConnection' =
                      [activeTabByConnection EXCEPT ![c] =
                         IF @ = tabId /\ Len(rest) > 0
                         THEN rest[Min(tabIndex, Len(rest))].id
                         ELSE IF Len(rest) = 0 THEN NoTab ELSE @]
      /\ tabCall' = [op |-> "closeTab", connectionId |-> c, arg |-> tabId,
                active |-> activeTabByConnection[c]]
      /\ UNCHANGED <<nonUiVars, queryTabVars, roundTripVars, connVars, formVars, now>>

\* setActiveTab(connectionId, tabId)
setActiveTab ==
  \E c \in ConnectionIds :
    \E tabId \in TabIds(c) \cup {<<c, "t1", now>>} :
      /\ activeTabByConnection' =
           IF tabId \in TabIds(c)
           THEN [activeTabByConnection EXCEPT ![c] = tabId]
           ELSE activeTabByConnection
      /\ tabCall' = [op |-> "setActiveTab", connectionId |-> c, arg |-> tabId,
                active |-> activeTabByConnection[c]]
      /\ UNCHANGED <<nonUiVars, queryTabVars, roundTripVars, connVars, formVars, now,
                     tabsByConnection>>

\* updateTabSql(connectionId, tabId, sql)
updateTabSql ==
  \E c \in ConnectionIds :
    \E tabId \in TabIds(c) \cup {<<c, "t1", now>>} :
      /\ LET tabs == getTabs(c)
             i == FirstIndex({k \in 1..Len(tabs) : tabs[k].id = tabId})
         IN tabsByConnection' =
              IF i = 0 THEN tabsByConnection
              ELSE [tabsByConnection EXCEPT
                      ![c][i].sql = UserSql, ![c][i].isCustomQuery = TRUE]
      /\ tabCall' = [op |-> "updateTabSql", connectionId |-> c, arg |-> tabId,
                active |-> activeTabByConnection[c]]
      /\ UNCHANGED <<nonUiVars, queryTabVars, roundTripVars, connVars, formVars, now,
                     activeTabByConnection>>

\* mutant: clearTabs that deletes the tabs but not the active tab id
clearTabs_TabsOnly ==
  \E c \in ConnectionIds :
    /\ tabsByConnection' = [tabsByConnection EXCEPT ![c] = <<>>]
    /\ tabCall' = [op |-> "clearTabs", connectionId |-> c, arg |-> <<>>,
              active |-> activeTabByConnection[c]]
    /\ UNCHANGED <<nonUiVars, queryTabVars, roundTripVars, connVars, formVars, now,
                   activeTabByConnection>>

\* clearTabs(connectionId)
clearTabs ==
  \E c \in ConnectionIds :
    /\ tabsByConnection' = [tabsByConnection EXCEPT ![c] = <<>>]
    /\ activeTabByConnection' = [activeTabByConnection EXCEPT ![c] = NoTab]
    /\ tabCall' = [op |-> "clearTabs", connectionId |-> c, arg |-> <<>>,
              active |-> activeTabByConnection[c]]
    /\ UNCHANGED <<nonUiVars, queryTabVars, roundTripVars, connVars, formVars, now>>

TabNext ==
  \/ Tick \/ openTab \/ closeTab \/ setActiveTab \/ updateTabSql \/ clearTabs

TabSpec == TabInit /\ [][TabNext]_vars

\* ========================================================= connection store
\* the connections a caller can add: two ids, two URLs
Connections == [id : 1..2, name : {"n"}, url : {"u1", "u2"}, createdAt : {0}]

\* JSON.stringify of a DatabaseConnection[]: per connection the values of its
\* keys in order
Stringify(conns) ==
  [i \in 1..Len(conns) |->
     <<conns[i].id, conns[i].name, conns[i].url, conns[i].createdAt>>]

\* JSON.parse of such a text
Parse(data) ==
  [i \in 1..Len(data) |->
     [id |-> data[i][1], name |-> data[i][2], url |-> data[i][3],
      createdAt |-> data[i][4]]]

\* StorageService.saveConnections: localStorage.setItem stores the text, or
\* throws (quota exceeded, storage disabled) and the error is only logged
saveConnections(st, conns, setItemOk) ==
  IF setItemOk THEN [state |-> "json", data |-> Stringify(conns)] ELSE st

\* StorageService.loadConnections: [] when the item is absent or does not
\* parse
loadConnectionsFrom(st) ==
  IF st.state = "json" THEN Parse(st.data) ELSE <<>>

\* mutant: only the first connection with the id is removed
RemoveById_FirstOnly(conns, id) ==
  LET S == {i \in 1..Len(conns) : conns[i].id = id}
  IN IF S = {} THEN conns
     ELSE LET k == CHOOSE i \in S : \A j \in S : i <= j
          IN SubSeq(conns, 1, k - 1) \o SubSeq(conns, k + 1, Len(conns))

\* connections.value.filter((c) => c.id !== id)
RemoveById(conns, id) == SelectSeq(conns, LAMBDA c : c.id # id)

\* the store is created: loadConnections() runs on what localStorage holds
ConnInit ==
  /\ ImportIdle /\ ExportIdle /\ RqIdle /\ QueryTabIdle /\ RoundTripIdle
  /\ TabsIdle /\ FormIdle
  /\ storage \in {NoItem, [state |-> "corrupt", data |-> <<>>]}
                 \cup {[state |-> "json", data |-> Stringify(l)] :
                         l \in SeqsUpTo(Connections, 1)}
  /\ connections = loadConnectionsFrom(storage)
  /\ connBase = connections /\ connOps = <<>>
  /\ activeConnectionId = NoConnection

\* loadConnections(): also what creating the store anew (a page reload) does
loadConnections ==
  /\ connections' = loadConnectionsFrom(storage)
  /\ connBase' = connections' /\ connOps' = <<>>
  /\ UNCHANGED <<nonUiVars, queryTabVars, roundTripVars, tabVars, formVars,
                 activeConnectionId, storage>>

\* addConnection(connection)
addConnection ==
  \E c \in Connections, setItemOk \in BOOLEAN :
    /\ Len(connections) < MaxConnections /\ Len(connOps) < MaxOps
    /\ connections' = Append(connections, c)
    /\ storage' = saveConnections(storage, connections', setItemOk)
    /\ connOps' = Append(connOps, [op |-> "add", connection |-> c, id |-> c.id])
    /\ UNCHANGED <<nonUiVars, queryTabVars, roundTripVars, tabVars, formVars,
                   activeConnectionId, connBase>>

\* removeConnection(id)
removeConnection ==
  \E id \in 1..2, setItemOk \in BOOLEAN :
    /\ Len(connOps) < MaxOps
    /\ connections' = RemoveById(connections, id)
    /\ storage' = saveConnections(storage, connections', setItemOk)
    /\ activeConnectionId' =
         IF activeConnectionId = id THEN NoConnection ELSE activeConnectionId
    /\ connOps' = Append(connOps, [op |-> "remove", connection |-> <<>>,
                                    id |-> id])
    /\ UNCHANGED <<nonUiVars, queryTabVars, roundTripVars, tabVars, formVars,
                   connBase>>

\* setActiveConnection(id)
setActiveConnection ==
  \E id \in {NoConnection} \cup 1..2 :
    /\ activeConnectionId' = id
    /\ UNCHANGED <<nonUiVars, queryTabVars, roundTripVars, tabVars, formVars,
                   connections, storage, connBase, connOps>>

ConnNext ==
  \/ loadConnections \/ addConnection \/ removeConnection
  \/ setActiveConnection

ConnSpec == ConnInit /\ [][ConnNext]_vars

\* ========================================================= AddDatabaseForm
\* what a user can type into the name and URL fields; "bad" is no URL
FormNames == {"", "n"}
FormUrls == {"", "bad", "u1", "u2"}

\* isValidUrl: new URL(url) does not throw
isValidUrl(url) == url \in {"u1", "u2"}

\* RqliteService.testConnection: true when GET /status returns, false when
\* it throws
testConnection(statusOutcome) == IF statusOutcome = "ok" THEN TRUE ELSE FALSE

\* the connections page is shown, no connection stored, the dialog closed
FormInit ==
  /\ ImportIdle /\ ExportIdle /\ RqIdle /\ QueryTabIdle /\ RoundTripIdle
  /\ TabsIdle /\ ConnectionsIdle /\ FormIdle

\* the + button: showAddDialog = true, and the watcher resets the form
ShowAddDialog ==
  /\ ~showAddDialog
  /\ showAddDialog' = TRUE
  /\ form' = EmptyForm /\ formError' = ""
  /\ UNCHANGED <<nonUiVars, queryTabVars, roundTripVars, tabVars, connVars,
                 loading, probeUrl, nextId, probedOk, savedLog>>

\* handleCancel (the Cancel button, disabled while loading), or q-dialog
\* closing itself (Escape, click outside): update:modelValue false
handleCancel ==
  /\ showAddDialog
  /\ showAddDialog' = FALSE
  /\ UNCHANGED <<nonUiVars, queryTabVars, roundTripVars, tabVars, connVars,
                 form, loading, formError, probeUrl, nextId, probedOk,
                 savedLog>>

\* v-model="form.name": the user types into the name field
EditName ==
  /\ showAddDialog
  /\ \E v \in FormNames : v # form.name /\ form' = [form EXCEPT !.name = v]
  /\ UNCHANGED <<nonUiVars, queryTabVars, roundTripVars, tabVars, connVars,
                 showAddDialog, loading, formError, probeUrl, nextId,
                 probedOk, savedLog>>

\* v-model="form.url": the user types into the URL field
EditUrl ==
  /\ showAddDialog
  /\ \E v \in FormUrls : v # form.url /\ form' = [form EXCEPT !.url = v]
  /\ UNCHANGED <<nonUiVars, queryTabVars, roundTripVars, tabVars, connVars,
                 showAddDialog, loading, formError, probeUrl, nextId,
                 probedOk, savedLog>>

\* handleSubmit up to the await: the button does not react while loading
handleSubmit ==
  /\ showAddDialog /\ ~loading /\ nextId <= MaxConnections
  /\ IF form.name = "" \/ form.url = "" \/ ~isValidUrl(form.url)
     THEN UNCHANGED <<loading, formError, probeUrl>>
     ELSE /\ loading' = TRUE
          /\ formError' = ""
          /\ probeUrl' = form.url
  /\ UNCHANGED <<nonUiVars, queryTabVars, roundTripVars, tabVars, connVars,
                 showAddDialog, form, nextId, probedOk, savedLog>>

\* handleSubmit from the await on: testConnection() has settled; on true the
\* connection is built, emitted as saved (handleSaved: addConnection) and
\* the dialog closed
StatusReturns ==
  /\ loading
  /\ \E statusOutcome \in {"ok", "throws"}, setItemOk \in BOOLEAN :
       IF ~testConnection(statusOutcome)
       THEN /\ formError' = "Could not connect to the database"
            /\ UNCHANGED <<showAddDialog, nextId, probedOk, savedLog,
                           connVars>>
       ELSE LET connection == [id |-> nextId, name |-> form.name,
                               url |-> form.url, createdAt |-> now]
            IN /\ probedOk' = probedOk \cup {probeUrl}
               /\ nextId' = nextId + 1
               /\ savedLog' = Append(savedLog, connection)
               /\ connections' = Append(connections, connection)
               /\ storage' = saveConnections(storage, connections',
                                             setItemOk)
               /\ connOps' = Append(connOps, [op |-> "add",
                                              connection |-> connection,
                                              id |-> connection.id])
               /\ showAddDialog' = FALSE
               /\ UNCHANGED <<formError, activeConnectionId, connBase>>
  /\ loading' = FALSE
  /\ UNCHANGED <<nonUiVars, queryTabVars, roundTripVars, tabVars, form,
                 probeUrl>>

FormNext ==
  \/ ShowAddDialog \/ handleCancel
  \/ EditName \/ EditUrl \/ handleSubmit \/ StatusReturns

FormSpec == FormInit /\ [][FormNext]_vars

\* ================================================== QueryTab.vue: data grid
\* the table shown has the rows 1..MaxGridRows; the page sizes the grid offers
GridPageSizes == {1, 2}

\* the rows queryWithPagination returns for a page of the table
PageRows(page, size) ==
  SelectLimitOffset(MaxGridRows, size, Offset(page, size))

GridInit ==
  /\ ImportIdle /\ ExportIdle /\ RqIdle /\ RoundTripIdle /\ StoresIdle
  /\ qtCall = "off" /\ qtInput = NoInput /\ qtStatement = NoStatement
  /\ \E p \in GridPageSizes : GridSetup(p)

\* loadData up to its await: the call of queryWithPagination with the page
\* and page size of the pagination pg
LoadDataCall(pg) ==
  /\ qtLoading' = TRUE
  /\ qtError' = FALSE
  /\ qtLoads' = Append(qtLoads, [page |-> pg.page,
                                 rowsPerPage |-> pg.rowsPerPage])

\* onMounted: the first loadData
onMounted ==
  /\ ~qtMounted
  /\ qtMounted' = TRUE
  /\ LoadDataCall(qtPagination)
  /\ UNCHANGED <<nonUiVars, storeVars, roundTripVars, qtCall, qtInput,
                 qtStatement, qtPagination, qtRows>>

\* handlePaginationChange(newPagination), as DataGrid's onRequest emits it
handlePaginationChange ==
  /\ qtMounted /\ Len(qtLoads) < MaxLoads
  /\ \E page \in 1..MaxGridRows, size \in GridPageSizes :
       LET newPagination == [page |-> page, rowsPerPage |-> size,
                             rowsNumber |-> qtPagination.rowsNumber]
       IN /\ qtPagination' = newPagination
          /\ LoadDataCall(newPagination)
  /\ UNCHANGED <<nonUiVars, storeVars, roundTripVars, qtCall, qtInput,
                 qtStatement, qtMounted, qtRows>>

\* a call of queryWithPagination returns: the rest of the try block of
\* loadData and its finally
LoadReturns ==
  \E k \in 1..Len(qtLoads) :
    /\ qtRows' = PageRows(qtLoads[k].page, qtLoads[k].rowsPerPage)
    /\ qtPagination' = [qtPagination EXCEPT !.rowsNumber = MaxGridRows]
    /\ qtLoading' = FALSE
    /\ qtLoads' = RemoveAt(qtLoads, k)
    /\ UNCHANGED <<nonUiVars, storeVars, roundTripVars, qtCall, qtInput,
                   qtStatement, qtMounted, qtError>>

\* a call of queryWithPagination throws: the catch of loadData and its finally
LoadFails ==
  \E k \in 1..Len(qtLoads) :
    /\ qtError' = TRUE
    /\ qtRows' = <<>>
    /\ qtLoading' = FALSE
    /\ qtLoads' = RemoveAt(qtLoads, k)
    /\ UNCHANGED <<nonUiVars, storeVars, roundTripVars, qtCall, qtInput,
                   qtStatement, qtMounted, qtPagination>>

GridNext == onMounted \/ handlePaginationChange \/ LoadReturns \/ LoadFails

GridSpec == GridInit /\ [][GridNext]_vars

\* ================================================================ claims
\* rows committed by the store: the rows of the batches whose write returned
RECURSIVE RowsIn(_)
RowsIn(batches) ==
  IF batches = <<>> THEN 0 ELSE Len(Head(batches)) + RowsIn(Tail(batches))

\* nothing is pending any more in the import: no write in flight, no timer
\* armed, no message undelivered, the worker past its last read
ImportQuiescent ==
  /\ started
  /\ inflight = None
  /\ waitPc # "sleeping"
  /\ \/ worker # "alive"
     \/ (toMain = <<>> /\ toWorker = <<>> /\ wPc = "done")

NoImportError == ~writeFailed /\ ~workerErrored

\* C1: an import cancelled while running, whose pending network calls and
\* messages have all been served, has reached phase cancelled, has resolved
\* its promise and reports as rowsInserted the rows of the completed writes.
C1_CancelledImportResolves ==
  (userCancelled /\ NoImportError /\ ImportQuiescent)
    => /\ promise = "resolved"
       /\ progress.phase = "cancelled"
       /\ progress.rowsInserted = RowsIn(written)

\* C2: once cancel() has been invoked, no batched write is submitted any
\* more: the list of submitted batches stays as it is in every later step.
C2_NoWriteAfterCancel == [][cancelled => issued' = issued]_vars

\* C2 witness: cancelled while a write was in flight; that write has
\* returned and a batch is still waiting in the queue
C2_Witness ==
  /\ userCancelled /\ inflight = None /\ batchQueue # <<>>
  /\ Len(written) >= 1 /\ Len(issued) = Len(written)

\* the logical data rows of a source file: the non-blank lines after the
\* header line (CSV); the INSERT statements outside comment lines (SQL)
NonBlank(lines) == SelectSeq(lines, LAMBDA l : Trim(l) # <<>>)

WithoutCommentLines(text) ==
  Join(SelectSeq(Split(text, NL),
                 LAMBDA l : ~(Trim(l) # <<>> /\ Head(Trim(l)) = "-")), NL)

LogicalRows(t, text) ==
  IF t = "parse-csv"
  THEN LET n == Len(NonBlank(Split(text, NL))) IN IF n = 0 THEN 0 ELSE n - 1
  ELSE Len(SelectSeq(Split(WithoutCommentLines(text), ";"),
                     LAMBDA st : Trim(st) # <<>>
                                 /\ Head(Trim(st)) \in {"I", "i"}))

\* the rows of a written statement list, as the worker emitted them
RowsOfStatements(stmts) ==
  [k \in 1..Len(stmts) |->
     IF type = "parse-csv" THEN stmts[k].params ELSE <<stmts[k].sql>>]

\* C3: when an import that was neither cancelled nor errored has resolved,
\* the phase is complete, the queue is empty, no write is in flight, the
\* batches written are exactly the batches the worker emitted, once each and
\* in order, and rowsInserted = rowsParsed = the logical data rows of the
\* source file.
C3_RowCountConservation ==
  (promise = "resolved" /\ ~cancelled /\ NoImportError)
    => /\ progress.phase = "complete"
       /\ batchQueue = <<>> /\ inflight = None /\ ~isInserting
       /\ [k \in 1..Len(written) |-> RowsOfStatements(written[k])] = emitted
       /\ progress.rowsInserted = progress.rowsParsed
       /\ progress.rowsInserted = LogicalRows(type, file)

Rejected == {"rejected-write", "rejected-worker"}

\* C4: an import on which cancel() is never invoked settles: eventually the
\* promise is settled (or the user has cancelled); it settles once, and it
\* is resolved, with phase complete, only when no write failed and the
\* worker reported no error, and is rejected as soon as one of them did.
C4_ImportSettles ==
  /\ <>(userCancelled \/ promise # "pending")
  /\ [][promise # "pending" => promise' = promise]_vars
  /\ []((promise = "resolved" /\ ~userCancelled)
          => (NoImportError /\ progress.phase = "complete"))
  /\ [](~NoImportError => promise \in Rejected)

\* C4 witness: an import of two batches, never cancelled, has resolved
C4_Witness ==
  /\ promise = "resolved" /\ ~userCancelled /\ Len(written) >= 2
  /\ progress.phase = "complete"

C6_EmbeddedErrorThrows ==
  rqOutcome # NoOutcome =>
    /\ rqOutcome.kind = "returned"
         => \A i \in 1..Len(rqOutcome.results) :
              rqOutcome.results[i].error = NoErr
    /\ (rqCall # "executeBatch" /\ rqResponse # <<>>
        /\ rqResponse[1].error # NoErr)
         => rqOutcome = Thrown(rqResponse[1].error)
    /\ (rqCall = "executeBatch"
        /\ \E i \in 1..Len(rqResponse) : rqResponse[i].error # NoErr)
         => /\ rqOutcome.kind = "thrown"
            /\ \E i \in 1..Len(rqResponse) :
                 /\ rqResponse[i].error = rqOutcome.message
                 /\ \A j \in 1..(i - 1) : rqResponse[j].error = NoErr

\* C6 witness: executeBatch whose last statement alone failed has thrown
C6_Witness ==
  /\ rqCall = "executeBatch" /\ Len(rqResponse) = 3
  /\ rqResponse[1].error = NoErr /\ rqResponse[2].error = NoErr
  /\ rqResponse[3].error = "e1"
  /\ rqOutcome = Thrown("e1")

\* C7: an export on a non-empty table that was cancelled before its promise
\* settled, and met no error, has resolved to null with phase cancelled.
C7_CancelledExportIsNull ==
  (xUserCancelled /\ xPromise # "pending" /\ ~xFailed /\ tableRows > 0)
    => (xPromise = "null" /\ xProgress.phase = "cancelled")

\* C8: once cancel() has been invoked no page request is issued, no row
\* batch is forwarded to the formatting worker and rowsFetched stays put.
C8_NothingFetchedAfterCancel ==
  [][xCancelled => /\ fetchLog' = fetchLog
                   /\ forwarded' = forwarded
                   /\ xProgress'.rowsFetched = xProgress.rowsFetched
                   /\ totalFetched' = totalFetched]_vars

\* C8 witness: cancelled while a group was in flight; its results were
\* dropped and pages remain unfetched
C8_Witness ==
  /\ xUserCancelled /\ xPromise = "null" /\ fetchLog # <<>>
  /\ Len(fetchLog) < TotalPages(tableRows, pageSize)
  /\ forwarded = <<>> /\ xProgress.rowsFetched = 0

RECURSIVE Flatten(_)
Flatten(ss) == IF ss = <<>> THEN <<>> ELSE Head(ss) \o Flatten(Tail(ss))

\* C9: when an export that was neither cancelled nor errored has fetched its
\* last page, every page 1..ceil(rows/pageSize) was requested exactly once
\* with LIMIT pageSize OFFSET (page-1)*pageSize, the rows forwarded are the
\* rows of the table, each once, and rowsFetched is the table's row count.
C9_PagesCoverTable ==
  (xPc \in {"finishing", "done"} /\ ~xCancelled /\ ~xFailed)
    => /\ \A p \in 1..TotalPages(tableRows, pageSize) :
            Cardinality({k \in 1..Len(fetchLog) : fetchLog[k].page = p}) = 1
       /\ \A k \in 1..Len(fetchLog) :
            /\ fetchLog[k].page \in 1..TotalPages(tableRows, pageSize)
            /\ fetchLog[k].limit = pageSize
            /\ fetchLog[k].offset = (fetchLog[k].page - 1) * pageSize
       /\ Flatten(forwarded) = [i \in 1..tableRows |-> i]
       /\ xProgress.rowsFetched = tableRows

\* C9 witness: 5 rows in pages of 2 with concurrency 3 give pages 1, 2, 3
\* of 2, 2 and 1 rows
C9_Witness ==
  /\ tableRows = 5 /\ pageSize = 2 /\ concurrency = 3
  /\ xPromise = "blob"
  /\ forwarded = << <<1, 2>>, <<3, 4>>, <<5>> >>
  /\ Len(fetchLog) = 3

\* C10: on an empty table no formatting worker is created, no page is
\* requested and no progress update is published, and export returns null as
\* soon as the lookup has returned.
C10_EmptyTableReturnsNull ==
  tableRows = 0 =>
    /\ xWorker = "null" /\ xToWorker = <<>>
    /\ fetchLog = <<>>
    /\ published = 0
    /\ (xPc = "done" /\ ~xFailed) => xPromise = "null"
    /\ xPc \in {"init", "lookup", "done"}

\* C10 witness: the export of an empty table has returned null
C10_Witness ==
  tableRows = 0 /\ xPc = "done" /\ xPromise = "null" /\ ~xUserCancelled

\* the terminal phases of a pipeline invocation
Terminal == {"complete", "error", "cancelled"}

\* C11: in an import the terminal phases are final: once the phase of the
\* progress object is complete, error or cancelled, no later step (worker
\* message, write completion) changes it.
C11_ImportTerminalPhaseFinal ==
  [][progress.phase \in Terminal => progress'.phase = progress.phase]_vars

\* C12: in an export the terminal phases are final: once the phase is
\* complete, error or cancelled, no later page result, worker message or
\* fetch completion changes it.
C12_ExportTerminalPhaseFinal ==
  [][xProgress.phase \in Terminal => xProgress'.phase = xProgress.phase]_vars

\* C13: in both pipelines, whenever the invocation has reached a terminal
\* phase or has settled its promise, its worker has been terminated.
C13_WorkerTerminatedOnOutcome ==
  /\ (progress.phase \in Terminal \/ promise # "pending") => worker = "null"
  /\ (xProgress.phase \in Terminal \/ xPromise # "pending")
       => xWorker = "null"

\* the batches submitted to the store, as rows
IssuedRows == [k \in 1..Len(issued) |-> RowsOfStatements(issued[k])]

IsPrefix(a, b) == Len(a) <= Len(b) /\ a = SubSeq(b, 1, Len(a))

\* C14: at every point of an import the batches submitted to the store,
\* followed by the batches received and still queued, are an initial part
\* of the batches the worker produced: batches are submitted in production
\* order, none is overtaken and none is submitted twice.
C14_WritesInProductionOrder ==
  /\ IsPrefix(IssuedRows \o batchQueue, emitted)
  /\ IsPrefix(IssuedRows, emitted)

\* C14 witness: three batches were produced; two were submitted one after the
\* other while the third waits in the queue
C14_Witness ==
  /\ Len(emitted) = 3 /\ Len(issued) = 2 /\ Len(batchQueue) = 1
  /\ inflight # None

\* the worker has posted complete: the last message of its output
ParseCompleted ==
  toMain # <<>> /\ toMain[Len(toMain)].type = "complete"

\* C15: each batch the worker emits is non-empty and has at most batchSize
\* rows, every batch but the last has exactly batchSize rows, and the batch
\* lengths sum to the totalRows of the complete message.
C15_BatchSizes ==
  LET bs == BatchesOf(toMain)
  IN /\ \A k \in 1..Len(bs) : Len(bs[k]) \in 1..batchSize
     /\ \A k \in 1..(Len(bs) - 1) : Len(bs[k]) = batchSize
     /\ \A i \in 1..Len(toMain) :
          toMain[i].type = "complete"
            => (i = Len(toMain) /\ toMain[i].totalRows = RowsIn(bs))

\* C15 witness: a CSV file of a header and three rows parsed with batch
\* size 2: batches of 2 and 1 rows and a final row count of 3
C15_Witness ==
  /\ type = "parse-csv" /\ batchSize = 2 /\ ParseCompleted
  /\ toMain[Len(toMain)].totalRows = 3
  /\ [k \in 1..Len(BatchesOf(toMain)) |-> Len(BatchesOf(toMain)[k])]
       = <<2, 1>>

\* the positions of the messages of type t in the worker's output
Positions(t) == {i \in 1..Len(toMain) : toMain[i].type = t}

\* C16: in a CSV import that ran to completion on a file with a non-empty
\* line, the first non-empty line is sent in exactly one headers message
\* that precedes every batch message, the data rows are the remaining
\* non-empty lines, and totalRows does not count the header line.
C16_FirstLineIsHeader ==
  LET lines == NonBlank(Split(file, NL))
  IN (type = "parse-csv" /\ ParseCompleted /\ lines # <<>>)
       => /\ Cardinality(Positions("headers")) = 1
          /\ \A h \in Positions("headers") :
               /\ toMain[h].headers = parseCSVLine(Trim(lines[1]))
               /\ \A b \in Positions("batch") : h < b
          /\ Flatten(BatchesOf(toMain))
               = [k \in 1..(Len(lines) - 1) |->
                    parseCSVLine(Trim(lines[k + 1]))]
          /\ toMain[Len(toMain)].totalRows = Len(lines) - 1

\* the statements the SQL filter is to yield: the file without its comment
\* lines, split on ';', trimmed, the INSERT statements kept
InsertStatements(text) ==
  LET parts == Split(WithoutCommentLines(text), ";")
      kept == SelectSeq(parts, LAMBDA st : IsInsert(Trim(st)))
  IN [k \in 1..Len(kept) |-> <<Trim(kept[k])>>]

\* C17: in an SQL import that ran to completion the statements emitted are
\* exactly the INSERT statements of the file outside comment lines, once
\* each and in file order, and the final row count is their number.
C17_OnlyInsertsEmitted ==
  (type = "parse-sql" /\ ParseCompleted)
    => /\ Flatten(BatchesOf(toMain)) = InsertStatements(file)
       /\ toMain[Len(toMain)].totalRows = Len(InsertStatements(file))

\* a value with its text hidden: only whether it is empty is kept
Blind(v) == IF v = "" THEN "" ELSE "a"

BlindInput(in) ==
  [in EXCEPT !.newValue = Blind(@), !.primaryKeyValue = Blind(@),
             !.data = [c \in DOMAIN @ |-> Blind(@[c])]]

\* the values the user supplied to the handler that ran, in order
SuppliedValues ==
  IF qtCall = "handleCellEdit"
  THEN <<qtInput.newValue, qtInput.primaryKeyValue>>
  ELSE IF qtCall = "handleInsertRow"
  THEN LET cols == SelectSeq(ColumnNames, LAMBDA k : qtInput.data[k] # "")
       IN [i \in 1..Len(cols) |-> qtInput.data[cols[i]]]
  ELSE <<qtInput.primaryKeyValue>>

\* the template the handler that ran builds for input in
TemplateFor(in) ==
  IF qtCall = "handleCellEdit" THEN CellEditStatement(in).template
  ELSE IF qtCall = "handleInsertRow" THEN InsertRowStatement(in.data).template
  ELSE DeleteRowStatement(in.primaryKey, in.primaryKeyValue).template

\* C18: the statement a cell edit, row insert or row delete executes binds
\* the user's values as its parameters, in order, has one ? placeholder per
\* value, and its template does not depend on the text of the values.
C18_ValuesOnlyAsParameters ==
  qtStatement # NoStatement
    => /\ qtStatement.params = SuppliedValues
       /\ Len(SelectSeq(qtStatement.template, LAMBDA tok : tok = "?"))
            = Len(SuppliedValues)
       /\ qtStatement.template = TemplateFor(BlindInput(qtInput))

\* C18 witness: a cell edit whose new value is a quote and whose key value
\* is an SQL keyword has built its statement
C18_Witness ==
  /\ qtCall = "handleCellEdit" /\ qtStatement # NoStatement
  /\ qtInput.newValue = "'" /\ qtInput.primaryKeyValue = "DROP"

\* C19: CSV round trip: a row of strings without control characters,
\* formatted with the delimited-text rules and parsed by the line parser,
\* comes back unchanged.
C19_CsvRoundTrip == csvPc = "parsed" => csvParsed = csvRow

\* C20: cancel() is idempotent: a cancel invoked when the cancelled flag is
\* already set changes nothing in the orchestrator, in the worker or in the
\* messages to be handled; it only posts one more cancel message, which the
\* worker handles without changing its state; invoked when the worker has
\* been terminated it posts nothing.
C20_CancelIdempotent ==
  /\ [][(cancelCalls' > cancelCalls /\ cancelled)
          => /\ orchVars' = orchVars /\ workerVars' = workerVars
             /\ toMain' = toMain
             /\ <<issued, written, emitted>>' = <<issued, written, emitted>>]_vars
  /\ [][(cancelCalls' > cancelCalls /\ worker = "null")
          => toWorker' = toWorker]_vars
  /\ [][(wCancelled /\ toWorker # <<>> /\ Head(toWorker) = "cancel"
          /\ toWorker' = Tail(toWorker) /\ worker' = "alive")
          => (workerVars' = workerVars /\ toMain' = toMain)]_vars
  /\ [][(xCancelCalls' > xCancelCalls /\ xCancelled)
          => /\ exportOrch' = exportOrch /\ xToMain' = xToMain
             /\ <<fwFormatted, published, fetchLog, forwarded>>'
                  = <<fwFormatted, published, fetchLog, forwarded>>]_vars
  /\ [][(xCancelCalls' > xCancelCalls /\ xWorker = "null")
          => xToWorker' = xToWorker]_vars

\* C20 witness: an import was cancelled while running and cancelled once
\* more after it had resolved and its worker had been terminated
C20_Witness ==
  /\ cancelCalls = 2 /\ userCancelled /\ worker = "null"
  /\ promise = "resolved" /\ progress.phase = "cancelled"

\* C21: after any sequence of tab-store operations there is at most one open
\* tab per table name on a connection (the number of open tabs equals the
\* number of distinct tables that have a tab), openTab on a table that has a
\* tab creating nothing.
C21_OneTabPerTable ==
  \A c \in ConnectionIds :
    \A i, j \in 1..Len(tabsByConnection[c]) :
      tabsByConnection[c][i].tableName = tabsByConnection[c][j].tableName
        => i = j

\* the operations of the store so far, the connections it was created with
\* counting as added first
ConnLog ==
  [i \in 1..Len(connBase) |->
     [op |-> "add", connection |-> connBase[i], id |-> connBase[i].id]]
  \o connOps

\* the positions of the log whose connection was added and not deleted later
Surviving ==
  {i \in 1..Len(ConnLog) :
     /\ ConnLog[i].op = "add"
     /\ ~\E j \in (i + 1)..Len(ConnLog) :
           ConnLog[j].op = "remove" /\ ConnLog[j].id = ConnLog[i].id}

\* C22: after any sequence of addConnection and removeConnection the list
\* holds exactly the connections added and not deleted afterwards, in the
\* order they were added.
C22_ConnectionListIntegrity ==
  /\ Len(connections) = Cardinality(Surviving)
  /\ \A k \in 1..Len(connections) :
       \E i \in Surviving :
         /\ connections[k] = ConnLog[i].connection
         /\ Cardinality({j \in Surviving : j < i}) = k - 1

\* C22 witness: a connection the store held was deleted and another one
\* added after the deletion.
C22_Witness ==
  /\ Len(connections) = 1
  /\ \E j \in 2..(Len(ConnLog) - 1) :
       /\ ConnLog[j].op = "remove"
       /\ \E i \in 1..(j - 1) :
            ConnLog[i].op = "add" /\ ConnLog[i].id = ConnLog[j].id
       /\ ConnLog[j + 1].op = "add"

\* C23: after any sequence of addConnection and removeConnection the list
\* persisted in local storage equals the list in memory: loading restores
\* exactly the connections of the store.
C23_PersistedEqualsMemory ==
  loadConnectionsFrom(storage) = connections

\* C24: a connection is emitted as saved (and stored) only after
\* testConnection() for its URL has returned true; a failed probe emits and
\* stores nothing and shows an error.
C24_SavedOnlyAfterProbe ==
  /\ \A i \in 1..Len(savedLog) : savedLog[i].url \in probedOk
  /\ connections = savedLog
  /\ formError # "" => ~loading

\* the batched writes sent to the store that have neither returned nor failed
WritesOutstanding ==
  Len(issued) - Len(written) - (IF writeFailed THEN 1 ELSE 0)

\* C25: the dispatch loop is single-flight: however batch messages, the wait
\* loop of complete and write completions interleave, at most one batched
\* write is outstanding, it is the one of the running dispatch cycle, and a
\* write is sent only in a step that leaves no other write outstanding.
C25_SingleFlight ==
  /\ WritesOutstanding \in {0, 1}
  /\ (WritesOutstanding = 1) <=> (inflight # None)
  /\ inflight # None => isInserting

\* C25 witness: a write is in flight, another batch waits in the queue and
\* the wait loop of complete is polling
C25_Witness ==
  /\ inflight # None /\ batchQueue # <<>> /\ waitPc = "sleeping"
  /\ ~cancelled

\* the page a forwarded batch of rows belongs to, and the rows of a page
PageOf(rows) == ((rows[1] - 1) \div pageSize) + 1
RowsOfPage(p) == SelectLimitOffset(tableRows, pageSize, Offset(p, pageSize))

\* C26: row batches are forwarded to the formatting worker in strictly
\* ascending page order whatever the order in which the requests of a group
\* return: every forwarded batch is the rows of one page, the pages ascend,
\* the pages of a group are applied together, in page order, in the step in
\* which its last request returns, and before any page of the next group.
C26_ForwardedInPageOrder ==
  /\ [](\A j \in 1..Len(forwarded) :
          /\ forwarded[j] = RowsOfPage(PageOf(forwarded[j]))
          /\ j < Len(forwarded)
               => PageOf(forwarded[j]) < PageOf(forwarded[j + 1]))
  /\ [](\A j \in 1..Len(forwarded), k \in 1..Len(group) :
          PageOf(forwarded[j]) < group[k])
  /\ [][forwarded' # forwarded
          => /\ Len(returnLog') = Len(fetchLog)
             /\ forwarded' = forwarded
                              \o [i \in 1..Len(group) |-> RowsOfPage(group[i])]
        ]_vars

\* C26 witness: the request of page 2 returned before the request of page 1
\* and both pages have been forwarded
C26_Witness ==
  /\ \E i, j \in 1..Len(returnLog) :
       i < j /\ returnLog[i] = 2 /\ returnLog[j] = 1
  /\ Len(forwarded) >= 2
  /\ PageOf(forwarded[1]) = 1 /\ PageOf(forwarded[2]) = 2

\* C27: at most concurrency page requests are in flight, every group is the
\* next up-to-concurrency pages not yet requested (pages are requested in the
\* order 1, 2, 3, ...), and a group is issued only in a step after which
\* every earlier request has returned.
C27_BoundedFetchGroups ==
  /\ [](/\ Len(fetchLog) - Len(returnLog) <= concurrency
        /\ Len(group) <= concurrency
        /\ Cardinality({k \in 1..Len(results) : ~results[k].returned})
             <= concurrency
        /\ \A k \in 1..Len(fetchLog) : fetchLog[k].page = k
        /\ xPc = "fetching"
             => /\ Len(group) =
                     Min(concurrency, TotalPages(totalRows, pageSize)
                                        - (Len(fetchLog) - Len(group)))
                /\ \A k \in 1..Len(group) :
                     group[k] = Len(fetchLog) - Len(group) + k)
  /\ [][fetchLog' # fetchLog => Len(returnLog') = Len(fetchLog)]_vars

\* C27 witness: with concurrency 2 a second group has been issued after the
\* first returned, and one request of the second group has returned
C27_Witness ==
  /\ concurrency = 2 /\ Len(fetchLog) = 4 /\ Len(returnLog) = 3
  /\ xPc = "fetching"

\* C28: once the import worker has reported an error the promise is rejected
\* and the phase is error in that step, and no batched write is issued after
\* it, also when batches are queued or a dispatch cycle is running.
C28_WorkerErrorAborts ==
  /\ [][(~workerErrored /\ workerErrored')
          => (promise' \in Rejected /\ progress'.phase = "error")]_vars
  /\ [][workerErrored => issued' = issued]_vars

\* C29: once the export has failed (the formatting worker reported an error,
\* or a lookup or page request threw) the promise is rejected with phase
\* error in that step, and afterwards no page group is fetched and no
\* progress update is published.
C29_FormatErrorTerminates ==
  /\ [][(~xFailed /\ xFailed')
          => (xPromise' = "rejected"
              \/ (xPromise # "pending" /\ xPromise' = xPromise))]_vars
  /\ [][(~xFailed /\ xFailed' /\ xProgress.phase # "none")
          => xProgress'.phase = "error"]_vars
  /\ [][xFailed => (fetchLog' = fetchLog /\ published' = published)]_vars

\* C30: on cancellation the dispatch loop drops the queued batches: once
\* cancel() was called and no write is in flight the queue is empty, and no
\* batch is written after the cancel but the one in flight.
C30_CancelDropsQueue ==
  /\ []((cancelled /\ inflight = None) => batchQueue = <<>>)
  /\ [][cancelled => issued' = issued]_vars

\* the phase has been inserting: processBatchQueue sets the phase to
\* inserting and adds the (non-empty) batch to rowsInserted in one update
HasInserted == progress.rowsInserted > 0

\* C31: the import phase only moves forward: once the phase has been
\* inserting it is never parsing again, although batch messages keep
\* arriving while earlier batches are written.
C31_PhaseNeverBackToParsing ==
  /\ [](HasInserted => progress.phase # "parsing")
  /\ [][progress.phase = "inserting" => progress'.phase # "parsing"]_vars

\* C32: every statement built by the import dispatch for a CSV row carries
\* as many bound values as its template has placeholders (one per header),
\* whatever the number of fields of the row.
C32_ValuesMatchPlaceholders ==
  \A i \in 1..Len(issued) : \A k \in 1..Len(issued[i]) :
    Len(issued[i][k].params) = issued[i][k].placeholders

\* the headers, batch and complete messages of a message list, without the
\* progress messages and the byte counters, which follow the chunk sizes
Units(msgs) ==
  LET kept == SelectSeq(msgs, LAMBDA m : m.type # "progress")
  IN [k \in 1..Len(kept) |->
        [type |-> kept[k].type, headers |-> kept[k].headers,
         batch |-> kept[k].batch, totalRows |-> kept[k].totalRows]]

\* the messages of the worker when the whole text arrives in one read
WholeOutput(t, text, size) ==
  LET r1 == ReadStep(ParseState(TRUE, <<>>, 0, <<>>, <<>>), t,
                     IF text = <<>> THEN <<>> ELSE <<text>>, FALSE, size, 0,
                     Len(text))
      r2 == ReadStep([r1.st EXCEPT !.out = <<>>], t, <<>>, FALSE, size,
                     Len(text), Len(text))
  IN IF r1.done THEN r1.st.out ELSE r1.st.out \o r2.st.out

\* the logical units of a text: its trimmed non-empty lines, each split into
\* fields, resp. its trimmed statements that pass the worker's INSERT filter;
\* the last one need not end with a separator
LogicalUnits(t, text) ==
  IF t = "parse-csv"
  THEN LET ls == NonBlank(Split(text, NL))
       IN [k \in 1..Len(ls) |-> parseCSVLine(Trim(ls[k]))]
  ELSE LET ps == SelectSeq(Split(text, ";"), LAMBDA p : IsInsert(Trim(p)))
       IN [k \in 1..Len(ps) |-> <<Trim(ps[k])>>]

\* the units the worker emitted: the header line, then the rows of the batches
EmittedUnits ==
  LET hs == SelectSeq(toMain, LAMBDA m : m.type = "headers")
  IN [k \in 1..Len(hs) |-> hs[k].headers] \o Flatten(BatchesOf(toMain))

\* C33: for every input and every partition of it into consecutive chunks
\* the worker emits the same headers, units and batches as for the input in
\* one chunk; the units are the non-empty trimmed lines resp. statements in
\* input order, the last one also without trailing separator, and a
\* zero-byte file emits none.
C33_ChunkingInvariance ==
  ParseCompleted
    => /\ Units(toMain) = Units(WholeOutput(type, file, batchSize))
       /\ EmittedUnits = LogicalUnits(type, file)
       /\ file = <<>> => EmittedUnits = <<>>

\* C33 witness: a completed parse of a text that was cut inside a unit, whose
\* last unit has no trailing separator and was emitted in a batch
C33_Witness ==
  /\ ParseCompleted
  /\ BatchesOf(toMain) # <<>>
  /\ file[Len(file)] \notin {NL, ";"}
  /\ \E i \in 1..Len(toMain) :
       /\ toMain[i].type = "progress"
       /\ \E k \in 1..(Len(file) - 1) :
            /\ toMain[i].bytesProcessed = k
            /\ file[k] \notin {NL, ";"} /\ file[k + 1] \notin {NL, ";"}

\* the state in which each character of a line is read (position
\* Len(line) + 1: the state at the end of the line); "escape" is the second
\* quote of a doubled quote inside quotes
LineModes(line) ==
  LET m[i \in 1..(Len(line) + 1)] ==
        IF i = 1 THEN "unquoted"
        ELSE IF m[i - 1] = "unquoted"
             THEN (IF line[i - 1] = "\"" THEN "quoted" ELSE "unquoted")
             ELSE IF m[i - 1] = "escape" THEN "quoted"
             ELSE IF line[i - 1] # "\"" THEN "quoted"
             ELSE IF i <= Len(line) /\ line[i] = "\"" THEN "escape"
             ELSE "unquoted"
  IN m

\* the commas of a line outside quotes
OuterCommas(line) ==
  {i \in 1..Len(line) : line[i] = "," /\ LineModes(line)[i] = "unquoted"}

\* the fields of a line by the two-state rules: cut at the commas outside
\* quotes; a doubled quote inside quotes gives one quote, every other
\* character but the quotes that open and close is copied; fields trimmed
FieldsOf(line) ==
  LET m == LineModes(line)
      seps == OuterCommas(line)
      fieldOf == [i \in 1..Len(line) |->
                    1 + Cardinality({c \in seps : c < i})]
      copied == [i \in 1..Len(line) |->
                   /\ i \notin seps
                   /\ (line[i] = "\"" => m[i] = "escape")]
      all == [i \in 1..Len(line) |-> i]
  IN [k \in 1..(Cardinality(seps) + 1) |->
        LET at == SelectSeq(all, LAMBDA i : copied[i] /\ fieldOf[i] = k)
        IN Trim([j \in 1..Len(at) |-> line[at[j]]])]

\* C34: parseCSVLine is a total two-state function: for every line it
\* returns one more field than the line has commas outside quotes; inside
\* quotes a doubled quote gives one literal quote and a comma is copied; a
\* quote left open is closed by the end of the line.
C34_LineParserTwoState ==
  csvPc = "parsed"
    => /\ Len(csvParsed) = Cardinality(OuterCommas(csvLine)) + 1
       /\ csvParsed = FieldsOf(csvLine)
       /\ LineModes(csvLine)[Len(csvLine) + 1] = "quoted"
            => csvParsed = parseCSVLine(Append(csvLine, "\""))

\* C34 witness: a parsed line with a quote left open after a comma and a
\* doubled quote inside the quotes
C34_Witness ==
  /\ csvPc = "parsed"
  /\ csvRow = <<>>
  /\ LineModes(csvLine)[Len(csvLine) + 1] = "quoted"
  /\ \E i, j \in 1..Len(csvLine) :
       /\ csvLine[i] = "," /\ LineModes(csvLine)[i] = "quoted"
       /\ LineModes(csvLine)[j] = "escape"

\* a step that is a call of closeTab: the last operation called is closeTab
\* and the clock did not move
CloseTabStep == tabCall'.op = "closeTab" /\ now' = now

\* C35: closeTab on the active tab makes the tab that followed the closed one
\* active, or the new last tab when the closed one was last, or none when it
\* was the only tab; closing another tab leaves the active tab unchanged;
\* closing an unknown tab id changes nothing.
C35_CloseTabSwitchesToNearest ==
  [][CloseTabStep =>
       LET c == tabCall'.connectionId
           tabId == tabCall'.arg
           tabs == tabsByConnection[c]
           at == {i \in 1..Len(tabs) : tabs[i].id = tabId}
           i == FirstIndex(at)
           active == activeTabByConnection[c]
       IN /\ \A d \in ConnectionIds \ {c} :
               /\ tabsByConnection'[d] = tabsByConnection[d]
               /\ activeTabByConnection'[d] = activeTabByConnection[d]
          /\ at = {} => /\ tabsByConnection'[c] = tabs
                        /\ activeTabByConnection'[c] = active
          /\ at # {} =>
               /\ tabsByConnection'[c] = RemoveAt(tabs, i)
               /\ activeTabByConnection'[c] =
                    IF active # tabId THEN active
                    ELSE IF Len(tabs) = 1 THEN NoTab
                    ELSE IF i < Len(tabs) THEN tabs[i + 1].id
                    ELSE tabs[i - 1].id]_vars

\* C35 witness: the active tab, the second of three, was closed and the tab
\* that followed it (opened at a later time than the closed one) is active
C35_Witness ==
  \E c \in ConnectionIds :
    /\ tabCall.op = "closeTab" /\ tabCall.connectionId = c
    /\ tabCall.active = tabCall.arg
    /\ tabCall.arg \notin TabIds(c)
    /\ Len(tabsByConnection[c]) = 2
    /\ activeTabByConnection[c] = tabsByConnection[c][2].id
    /\ tabsByConnection[c][1].id # tabsByConnection[c][2].id
    /\ tabCall.arg[3] < tabsByConnection[c][2].id[3]

\* C36: in the data grid, once every page load has completed (and none left
\* an error shown) the displayed rows are those of the page in the pagination
\* state: a late response for an older page request never overwrites the rows
\* of the latest requested page.
C36_GridShowsRequestedPage ==
  (qtMounted /\ qtLoads = <<>> /\ ~qtError)
    => qtRows = PageRows(qtPagination.page, qtPagination.rowsPerPage)

\* waitForInserts is in its loop: asleep until the next poll, or inside the
\* processBatchQueue call of a poll
InWaitLoop == waitPc \in {"sleeping", "awaiting"}

\* C37: the completion wait loop always terminates, given that every network
\* call returns: in every interleaving with cancel(), with a failed batch
\* write and with writes in flight, it eventually stops polling, with the
\* worker torn down and the promise settled.
C37_WaitLoopTerminates ==
  InWaitLoop ~> (~InWaitLoop /\ worker = "null" /\ promise # "pending")

\* C38: in every state of an import the published counters satisfy
\* rowsInserted <= rowsParsed and bytesProcessed <= totalBytes, and
\* rowsParsed, rowsInserted and bytesProcessed never decrease from one
\* progress update to the next.
C38_CountersBoundedMonotone ==
  /\ [](/\ progress.rowsInserted <= progress.rowsParsed
        /\ progress.bytesProcessed <= totalBytes)
  /\ [][/\ progress'.rowsParsed >= progress.rowsParsed
        /\ progress'.rowsInserted >= progress.rowsInserted
        /\ progress'.bytesProcessed >= progress.bytesProcessed]_vars

\* C38 witness: a batch has been written while a later one was already
\* parsed, and the whole file has been read
C38_Witness ==
  /\ progress.rowsInserted >= 1
  /\ progress.rowsInserted < progress.rowsParsed
  /\ progress.bytesProcessed = totalBytes
  /\ Len(issued) >= 2

\* C39: after any sequence of tab-store operations, for every connection the
\* active tab id is absent or the id of a tab open for that connection, and
\* the connection has an active tab exactly when it has an open tab.
C39_ActiveTabIsOpen ==
  \A c \in ConnectionIds :
    /\ activeTabByConnection[c] \in TabIds(c) \cup {NoTab}
    /\ (activeTabByConnection[c] # NoTab) <=> (tabsByConnection[c] # <<>>)

\* C39 witness: after a closeTab of the active tab two tabs remain open and
\* one of them is active, while the other connection has no tab and no
\* active tab
C39_Witness ==
  \E c \in ConnectionIds :
    /\ tabCall.op = "closeTab" /\ tabCall.connectionId = c
    /\ tabCall.active = tabCall.arg
    /\ Len(tabsByConnection[c]) = 2
    /\ activeTabByConnection[c] \in TabIds(c)
    /\ \E d \in ConnectionIds \ {c} :
         tabsByConnection[d] = <<>> /\ activeTabByConnection[d] = NoTab

====
